---- MODULE Spec2Model ----
(***************************************************************************)
(* Persona pipeline: PersonaPipelineService (orchestrator, retry executor, *)
(* transient-error classifier), GeminiService (text generation, response   *)
(* parsing, length-constrained audio script) and ElevenLabsService (speech *)
(* synthesis).  Strings are TLA+ strings handled character by character.   *)
(***************************************************************************)
EXTENDS Integers, Sequences, FiniteSets, TLC

VARIABLES
    message,      \* isTransientError: the message of its argument
    classified,   \* isTransientError: TRUE once it has returned
    verdict,      \* isTransientError: its return value
    rpc,          \* retryWithBackoff: "off", "call" (loop head), "await" (awaiting fn()),
                  \*   "sleep" (awaiting sleep(delay)), "returned", "thrown"
    operationName,\* retryWithBackoff: its operationName argument
    maxRetries,   \* retryWithBackoff: its maxRetries argument
    attempt,      \* retryWithBackoff: the loop variable
    lastError,    \* retryWithBackoff: the local lastError (a message, "" when undefined)
    fnOutcome,    \* how the promise of the current fn() settled, until retryWithBackoff resumes
    settled,      \* how retryWithBackoff's own promise settled
    outcomes,     \* history: how the fn() invocations of this retryWithBackoff call settled
    calls,        \* history: number of fn() invocations, per operation name
    waits,        \* history: the delays slept, in order, per operation name
    plan,         \* retryWithBackoff on its own: how the k-th invocation of the wrapped
                  \*   operation is going to settle; two invocations of generatePersona:
                  \*   how the requests of this invocation are going to be answered
    svc,          \* the service method in progress: "off", "start" (called), "request"
                  \*   (awaiting its remote request), "regen" (generateAudioScript awaiting
                  \*   its regeneration request), "done"
    script,       \* generateAudioScript: the local script (the cleaned first draft)
    wordCount,    \* generateAudioScript: the local wordCount
    requests,     \* history: number of remote requests issued, per operation name
    sent,         \* history: the latest call of a service method (its operation and
                  \*   argument) and the wordCountGuidance of the prompt of its latest
                  \*   request
    stage,        \* generatePersona: "Idle", "Analyzing", "PersonaGenerating",
                  \*   "ScriptGenerating", "Synthesizing", "Complete", "Failed"
    analysis,     \* generatePersona: the local analysis
    persona,      \* generatePersona: the local persona
    audioScript,  \* generatePersona: the local audioScript
    audioUrl,     \* generatePersona: the local audioUrl
    result,       \* how the promise of generatePersona settled
    losers,       \* the kinds of race losers still pending: "remote" (a request whose
                  \*   timer fired first) and "timer" (a timer whose request was
                  \*   answered first)
    upstream,     \* history: the answer to the latest remote request of the current
                  \*   invocation of a stage operation
    responseText, \* a parser on its own: the text it is given
    parseResult,  \* a parser on its own: the record it returned or the error it threw
    now,          \* Date.now(), in ms since generatePersona was called
    startTime,    \* generatePersona: the local startTime
    other,        \* two invocations of generatePersona in progress: the locals of the
                  \*   invocation that is not running (the variables above hold those
                  \*   of the one that is)
    turn,         \* two invocations in progress: the one that is running, 1 or 2
    page,         \* PersonaGeneratorPage: its state, the call of handleSubmit in
                  \*   progress and the progress intervals that are running
    player        \* AudioBriefing: its props, its state and what its audio element
                  \*   is going to do

clsVars == <<message, classified, verdict>>
retryVars == <<rpc, operationName, maxRetries, attempt, lastError, fnOutcome, settled,
               outcomes, calls, waits>>
svcVars == <<svc, script, wordCount, requests, sent>>
vars == <<message, classified, verdict, rpc, operationName, maxRetries, attempt,
          lastError, fnOutcome, settled, outcomes, calls, waits, plan,
          svc, script, wordCount, requests, sent,
          stage, analysis, persona, audioScript, audioUrl, result, upstream, losers,
          responseText, parseResult, now, startTime, other, turn, page, player>>
parseVars == <<responseText, parseResult>>
clockVars == <<now, startTime>>
pipeVars == <<stage, analysis, persona, audioScript, audioUrl, result, upstream>>
pairVars == <<other, turn>>
uiVars == <<page, player>>

(***************************************************************************)
(* Bounds of the model                                                     *)
(***************************************************************************)
\* number of fragments an enumerated error message is made of
MaxFragments == 2
\* largest maxRetries argument retryWithBackoff is called with on its own
MaxRetriesArg == 3
\* the clock stops advancing MaxClock ms after generatePersona was called
MaxClock == 2

(***************************************************************************)
(* JavaScript string primitives                                            *)
(***************************************************************************)
CharAt(s, i) == SubSeq(s, i, i)

\* String.prototype.includes
Includes(s, p) ==
    \E i \in 1..(Len(s) - Len(p) + 1) : SubSeq(s, i, i + Len(p) - 1) = p

UpperCaseLetters == "ABCDEFGHIJKLMNOPQRSTUVWXYZ"
LowerCaseLetters == "abcdefghijklmnopqrstuvwxyz"

LowerChar(c) ==
    IF \E i \in 1..26 : CharAt(UpperCaseLetters, i) = c
    THEN CharAt(LowerCaseLetters, CHOOSE i \in 1..26 : CharAt(UpperCaseLetters, i) = c)
    ELSE c

\* String.prototype.toLowerCase
RECURSIVE ToLowerCase(_)
ToLowerCase(s) ==
    CHOOSE lowered \in
        { IF Len(v) = 0 THEN ""
          ELSE IF Len(v) = 1 THEN LowerChar(v)
          ELSE ToLowerCase(SubSeq(v, 1, Len(v) \div 2))
                   \o ToLowerCase(SubSeq(v, Len(v) \div 2 + 1, Len(v))) : v \in {s} } : TRUE

(***************************************************************************)
(* PersonaPipelineService.isTransientError                                 *)
(***************************************************************************)
transientPatterns ==
    { "timeout", "network", "connection", "econnrefused", "enotfound",
      "etimedout", "socket hang up", "temporarily unavailable" }

nonRetryablePatterns ==
    { "rate limit", "quota", "authentication", "api key", "invalid",
      "not found", "private", "inaccessible", "validation" }

\* mutant: the message is matched without being lower-cased
isTransientErrorCaseSensitive(msg) ==
    /\ \E pattern \in transientPatterns : Includes(msg, pattern)
    /\ ~ \E pattern \in nonRetryablePatterns : Includes(msg, pattern)

\* mutant: the non-retryable markers are not consulted
isTransientErrorNoPrecedence(msg) ==
    \E pattern \in transientPatterns : Includes(ToLowerCase(msg), pattern)

\* mutant: every error is retry-worthy unless marked non-retryable
isTransientErrorDefaultRetry(msg) ==
    ~ \E pattern \in nonRetryablePatterns : Includes(ToLowerCase(msg), pattern)

\* `lowered` is bound once, as the const of line 160 is
isTransientError(msg) ==
    \E lowered \in {ToLowerCase(msg)} :
        LET isTransient == \E pattern \in transientPatterns : Includes(lowered, pattern)
            isNonRetryable == \E pattern \in nonRetryablePatterns : Includes(lowered, pattern)
        IN  isTransient /\ ~isNonRetryable

\* the markers of a list that occur in the message, ignoring case
MarkersIn(patterns, msg) ==
    { p \in patterns :
        \E i \in 1..(Len(msg) - Len(p) + 1) :
            \A j \in 1..Len(p) : LowerChar(CharAt(msg, i + j - 1)) = CharAt(p, j) }

(***************************************************************************)
(* Outcomes of promises: a value or an error carrying a message            *)
(***************************************************************************)
NoOutcome == [kind |-> "none", value |-> "", message |-> ""]
Value(v) == [kind |-> "value", value |-> v, message |-> ""]
Error(m) == [kind |-> "error", value |-> "", message |-> m]

\* no service method has been called
NoCall == [operation |-> "", input |-> "", wordCountGuidance |-> ""]

\* mutant: three retries by default
DefaultMaxRetriesOneMore == 2 + 1

(***************************************************************************)
(* PersonaPipelineService.retryWithBackoff                                 *)
(***************************************************************************)
DefaultMaxRetries == 2

OperationNames ==
    { "Article text analysis", "Persona generation", "Audio script generation",
      "Audio synthesis", "operation" }

\* mutant: the exponent counts the attempts made, not the retries made
BackoffDelayFromOne(n) == (2 ^ (n + 1)) * 1000

\* Math.pow(2, attempt) * 1000
BackoffDelay(n) == (2 ^ n) * 1000

\* mutant: the last attempt is not recognised
GivesUpIgnoringBudget(n, max, msg) == ~isTransientError(msg)

\* mutant: the classifier is not consulted
GivesUpIgnoringClassifier(n, max, msg) == n = max

\* mutant: the loop bound is off by one
GivesUpOneLate(n, max, msg) == n = max + 1 \/ ~isTransientError(msg)

\* the condition of line 131: no retry on the last attempt or on a
\* non-transient error
GivesUp(n, max, msg) == n = max \/ ~isTransientError(msg)

RetryOff ==
    /\ rpc = "off"
    /\ operationName = ""
    /\ maxRetries = 0
    /\ attempt = 0
    /\ lastError = ""
    /\ fnOutcome = NoOutcome
    /\ settled = NoOutcome
    /\ outcomes = <<>>
    /\ calls = [n \in OperationNames |-> 0]
    /\ waits = [n \in OperationNames |-> <<>>]

ServiceOff ==
    /\ svc = "off"
    /\ script = ""
    /\ wordCount = 0
    /\ requests = [n \in OperationNames |-> 0]
    /\ sent = NoCall

\* no parser is being looked at on its own
ParseOff ==
    /\ responseText = [prefix |-> "", doc |-> [t |-> "undefined"], suffix |-> ""]
    /\ parseResult = NoOutcome

\* the clock reads 0 and startTime is not assigned
ClockOff ==
    /\ now = 0
    /\ startTime = 0

\* one invocation of generatePersona, not called yet
NoInvocation == [stage |-> "None"]

\* useState<PageState>({...}): the state PersonaGeneratorPage is mounted
\* with
InitialPageState ==
    [ articleText |-> "", designBrief |-> "", isLoading |-> FALSE,
      currentStep |-> "idle", persona |-> [t |-> "null"], error |-> [t |-> "null"] ]

\* the page as mounted: handleSubmit was never called, no interval runs
PageMounted ==
    [ state |-> InitialPageState, pc |-> "idle", intervals |-> {}, call |-> 0,
      handled |-> "mount", submitted |-> << "", "" >>,
      settledAs |-> [t |-> "null"] ]

\* no AudioBriefing is mounted
NoPlayer == [mounted |-> FALSE]

\* the front end is not looked at
FrontEndOff ==
    /\ page = PageMounted
    /\ player = NoPlayer

\* generatePersona has not been called
PipelineIdle ==
    /\ stage = "Idle"
    /\ analysis = [t |-> "undefined"]
    /\ persona = [t |-> "undefined"]
    /\ audioScript = ""
    /\ audioUrl = ""
    /\ result = NoOutcome
    /\ upstream = [kind |-> "none", body |-> "", message |-> ""]
    /\ losers = {}

PipelineOff ==
    /\ other = NoInvocation
    /\ turn = 1
    /\ FrontEndOff
    /\ ParseOff
    /\ ClockOff
    /\ PipelineIdle

\* entering retryWithBackoff(fn, name, max): lastError undefined, attempt = 0
\* and the loop condition attempt <= maxRetries evaluated once
EnterRetry(name, max) ==
    /\ operationName' = name
    /\ maxRetries' = max
    /\ attempt' = 0
    /\ lastError' = ""
    /\ fnOutcome' = NoOutcome
    /\ outcomes' = <<>>
    /\ IF 0 <= max
       THEN rpc' = "call" /\ settled' = NoOutcome
       ELSE rpc' = "thrown" /\ settled' = Error(name \o " failed after all retries")

\* the loop body up to `await fn()`: the wrapped operation is invoked
RetryInvokes ==
    /\ rpc = "call"
    /\ rpc' = "await"
    /\ calls' = [calls EXCEPT ![operationName] = @ + 1]

\* mutant: the value of fn() is awaited but not returned, the loop goes on
RetryResumesWithoutReturn ==
    /\ rpc = "await"
    /\ fnOutcome.kind # "none"
    /\ fnOutcome' = NoOutcome
    /\ outcomes' = Append(outcomes, fnOutcome)
    /\ lastError' = IF fnOutcome.kind = "error" THEN fnOutcome.message ELSE lastError
    /\ IF fnOutcome.kind = "error" /\ GivesUp(attempt, maxRetries, fnOutcome.message)
       THEN /\ rpc' = "thrown"
            /\ settled' = fnOutcome
            /\ UNCHANGED waits
       ELSE /\ rpc' = "sleep"
            /\ waits' = [waits EXCEPT ![operationName] = Append(@, BackoffDelay(attempt))]
            /\ UNCHANGED settled
    /\ UNCHANGED <<operationName, maxRetries, attempt, calls>>

\* mutant: the error thrown on giving up is a new one, annotated with the
\* number of attempts made
RetryResumesAnnotated ==
    /\ rpc = "await"
    /\ fnOutcome.kind # "none"
    /\ fnOutcome' = NoOutcome
    /\ outcomes' = Append(outcomes, fnOutcome)
    /\ IF fnOutcome.kind = "value"
       THEN /\ rpc' = "returned"
            /\ settled' = fnOutcome
            /\ UNCHANGED <<lastError, waits>>
       ELSE /\ lastError' = fnOutcome.message
            /\ IF GivesUp(attempt, maxRetries, fnOutcome.message)
               THEN /\ rpc' = "thrown"
                    /\ settled' = Error(fnOutcome.message \o " (after "
                                            \o ToString(attempt + 1) \o " attempts)")
                    /\ UNCHANGED waits
               ELSE /\ rpc' = "sleep"
                    /\ waits' = [waits EXCEPT ![operationName] =
                                    Append(@, BackoffDelay(attempt))]
                    /\ UNCHANGED settled
    /\ UNCHANGED <<operationName, maxRetries, attempt, calls>>

\* mutant: sleep(delay) is called but not awaited
RetryResumesSleepNotAwaited ==
    /\ rpc = "await"
    /\ fnOutcome.kind # "none"
    /\ fnOutcome' = NoOutcome
    /\ outcomes' = Append(outcomes, fnOutcome)
    /\ IF fnOutcome.kind = "value"
       THEN /\ rpc' = "returned"
            /\ settled' = fnOutcome
            /\ UNCHANGED <<lastError, waits, attempt>>
       ELSE /\ lastError' = fnOutcome.message
            /\ IF GivesUp(attempt, maxRetries, fnOutcome.message)
               THEN /\ rpc' = "thrown"
                    /\ settled' = fnOutcome
                    /\ UNCHANGED <<waits, attempt>>
               ELSE /\ rpc' = "call"
                    /\ attempt' = attempt + 1
                    /\ waits' = [waits EXCEPT ![operationName] =
                                    Append(@, BackoffDelay(attempt))]
                    /\ UNCHANGED settled
    /\ UNCHANGED <<operationName, maxRetries, calls>>

\* mutant: the error of the first attempt is kept and thrown in the end
RetryResumesFirstError ==
    /\ rpc = "await"
    /\ fnOutcome.kind # "none"
    /\ fnOutcome' = NoOutcome
    /\ outcomes' = Append(outcomes, fnOutcome)
    /\ IF fnOutcome.kind = "value"
       THEN /\ rpc' = "returned"
            /\ settled' = fnOutcome
            /\ UNCHANGED <<lastError, waits>>
       ELSE /\ lastError' = IF lastError = "" THEN fnOutcome.message ELSE lastError
            /\ IF GivesUp(attempt, maxRetries, fnOutcome.message)
               THEN /\ rpc' = "thrown"
                    /\ settled' = Error(IF lastError = "" THEN fnOutcome.message
                                        ELSE lastError)
                    /\ UNCHANGED waits
               ELSE /\ rpc' = "sleep"
                    /\ waits' = [waits EXCEPT ![operationName] =
                                    Append(@, BackoffDelay(attempt))]
                    /\ UNCHANGED settled
    /\ UNCHANGED <<operationName, maxRetries, attempt, calls>>

\* retryWithBackoff resumes from `await fn()`
RetryResumes ==
    /\ rpc = "await"
    /\ fnOutcome.kind # "none"
    /\ fnOutcome' = NoOutcome
    /\ outcomes' = Append(outcomes, fnOutcome)
    /\ IF fnOutcome.kind = "value"
       THEN /\ rpc' = "returned"
            /\ settled' = fnOutcome
            /\ UNCHANGED <<lastError, waits>>
       ELSE /\ lastError' = fnOutcome.message
            /\ IF GivesUp(attempt, maxRetries, fnOutcome.message)
               THEN /\ rpc' = "thrown"
                    /\ settled' = fnOutcome
                    /\ UNCHANGED waits
               ELSE /\ rpc' = "sleep"
                    /\ waits' = [waits EXCEPT ![operationName] =
                                    Append(@, BackoffDelay(attempt))]
                    /\ UNCHANGED settled
    /\ UNCHANGED <<operationName, maxRetries, attempt, calls>>

\* the timer of sleep(delay) fires: attempt++ and the loop condition
RetryWakes ==
    /\ rpc = "sleep"
    /\ attempt' = attempt + 1
    /\ IF attempt + 1 <= maxRetries
       THEN rpc' = "call" /\ UNCHANGED settled
       ELSE rpc' = "thrown" /\ settled' = Error(lastError)
    /\ UNCHANGED <<operationName, maxRetries, lastError, fnOutcome, outcomes, calls, waits>>

(***************************************************************************)
(* Specification of retryWithBackoff on its own: it is called with an      *)
(* operation that settles in an arbitrary way at each invocation.          *)
(***************************************************************************)
OperationValues == { "first", "second" }

OperationErrors ==
    { "connection timeout", "network unreachable", "API key timeout", "server error" }

OperationOutcomes ==
    { Value(v) : v \in OperationValues } \cup { Error(m) : m \in OperationErrors }

InitRetry ==
    /\ message = "" /\ classified = FALSE /\ verdict = FALSE
    /\ \E max \in 0..MaxRetriesArg :
        /\ rpc = "call"
        /\ operationName = "operation"
        /\ maxRetries = max
        /\ plan \in [1..(max + 1) -> OperationOutcomes]
    /\ attempt = 0
    /\ lastError = ""
    /\ fnOutcome = NoOutcome
    /\ settled = NoOutcome
    /\ outcomes = <<>>
    /\ calls = [n \in OperationNames |-> 0]
    /\ waits = [n \in OperationNames |-> <<>>]
    /\ ServiceOff
    /\ PipelineOff

OperationInvoked ==
    /\ RetryInvokes
    /\ UNCHANGED <<operationName, maxRetries, attempt, lastError, fnOutcome, settled,
                   outcomes, waits>>
    /\ UNCHANGED <<clsVars, plan, pairVars, uiVars, parseVars, clockVars, svcVars, pipeVars, losers>>

\* the k-th invocation settles as planned (invocations beyond the plan fail)
OperationSettles ==
    /\ rpc = "await"
    /\ fnOutcome.kind = "none"
    /\ fnOutcome' = IF calls["operation"] <= Len(plan)
                    THEN plan[calls["operation"]]
                    ELSE Error("server error")
    /\ UNCHANGED <<rpc, operationName, maxRetries, attempt, lastError, settled,
                   outcomes, calls, waits>>
    /\ UNCHANGED <<clsVars, plan, pairVars, uiVars, parseVars, clockVars, svcVars, pipeVars, losers>>

OperationAwaited ==
    RetryResumes /\ UNCHANGED <<clsVars, plan, pairVars, uiVars, parseVars, clockVars, svcVars, pipeVars, losers>>

\* the timer of sleep(delay) fires: no earlier than delay ms after it was set
BackoffElapsed ==
    /\ RetryWakes
    /\ LET slept == waits[operationName]
       IN  now' = now + slept[Len(slept)]
    /\ UNCHANGED startTime
    /\ UNCHANGED <<clsVars, plan, pairVars, uiVars, parseVars, svcVars, pipeVars, losers>>

NextRetry == OperationInvoked \/ OperationSettles \/ OperationAwaited \/ BackoffElapsed

SpecRetry == InitRetry /\ [][NextRetry]_vars

RetryDone == rpc \in { "returned", "thrown" }

\* C3: whatever the outcomes of the wrapped operation, retryWithBackoff
\* invokes it at most maxRetries + 1 times, and an invocation that
\* succeeded is the last one ever made.
C3_BoundedInvocations ==
    /\ calls["operation"] <= maxRetries + 1
    /\ \A i \in 1..Len(outcomes) :
         outcomes[i].kind = "value" => (i = Len(outcomes) /\ calls["operation"] = i)

\* witness of C3: with maxRetries = 2 the third and last allowed invocation
\* succeeded and the call returned
C3_Witness ==
    /\ rpc = "returned"
    /\ maxRetries = 2
    /\ calls["operation"] = 3

\* the operation fails retryably at invocations 1 and 2 and succeeds at 3
FailsTwiceThenSucceeds ==
    /\ maxRetries = 2
    /\ plan[1].kind = "error" /\ isTransientError(plan[1].message)
    /\ plan[2].kind = "error" /\ isTransientError(plan[2].message)
    /\ plan[3].kind = "value"

\* C4: with maxRetries = 2 and an operation failing retryably twice and
\* then succeeding, retryWithBackoff ends after exactly 3 invocations, has
\* waited 1000 ms and then 2000 ms, and returns the third invocation's value;
\* until then it has not ended.
C4_TwoRetriesThenSuccess ==
    FailsTwiceThenSucceeds =>
        /\ RetryDone =>
             /\ calls["operation"] = 3
             /\ waits["operation"] = <<1000, 2000>>
             /\ rpc = "returned"
             /\ settled = plan[3]
        /\ \A k \in 1..Len(waits["operation"]) :
             waits["operation"][k] = (2 ^ (k - 1)) * 1000

\* witness of C4: such a call has returned
C4_Witness ==
    /\ FailsTwiceThenSucceeds
    /\ rpc = "returned"
    /\ Len(outcomes) = 3

\* C5: when the first invocation fails with an error the classifier marks
\* non-retryable, the operation is invoked exactly once, nothing is waited
\* for, and that error is what retryWithBackoff throws.
C5_NonRetryableFailsFast ==
    (plan[1].kind = "error" /\ ~isTransientError(plan[1].message)) =>
        /\ calls["operation"] <= 1
        /\ waits["operation"] = <<>>
        /\ rpc # "returned"
        /\ RetryDone => (calls["operation"] = 1 /\ rpc = "thrown" /\ settled = plan[1])

\* witness of C5: retries were available (maxRetries = 2) and the call has
\* thrown after a first non-retryable failure
C5_Witness ==
    /\ maxRetries = 2
    /\ plan[1] = Error("API key timeout")
    /\ rpc = "thrown"

RECURSIVE SumSeq(_)
SumSeq(q) == IF Len(q) = 0 THEN 0 ELSE Head(q) + SumSeq(Tail(q))

\* invocations of the wrapped operation started and not yet settled
InvocationsPending ==
    calls["operation"] - Len(outcomes) - (IF fnOutcome.kind = "none" THEN 0 ELSE 1)

\* C23: retryWithBackoff never has two invocations of the wrapped operation
\* in progress; an invocation starts only when every earlier one has
\* settled with a failure and every backoff delay set so far has fully
\* elapsed, and none starts during a backoff wait.
C23_OneInvocationAtATime ==
    /\ [](InvocationsPending \in { 0, 1 })
    /\ [](rpc = "sleep" =>
            /\ InvocationsPending = 0
            /\ fnOutcome.kind = "none"
            /\ now < SumSeq(waits["operation"]))
    /\ [][calls' # calls =>
            /\ calls' = [calls EXCEPT !["operation"] = @ + 1]
            /\ InvocationsPending = 0
            /\ Len(outcomes) = calls["operation"]
            /\ \A i \in 1..Len(outcomes) : outcomes[i].kind = "error"
            /\ Len(waits["operation"]) = calls["operation"]
            /\ \A k \in 1..Len(waits["operation"]) :
                  waits["operation"][k] = BackoffDelay(k - 1)
            /\ now >= SumSeq(waits["operation"])]_vars
    /\ [][rpc = "sleep" => calls' = calls]_vars

\* witness of C23: the third invocation is in progress, 1000 + 2000 ms after
\* the call at the earliest
C23_Witness ==
    /\ rpc = "await"
    /\ calls["operation"] = 3
    /\ InvocationsPending = 1
    /\ now = 3000

\* C22 as claimed: the error retryWithBackoff throws on giving up is
\* annotated with the number of attempts made.
C22_ErrorAnnotatedWithAttempts ==
    rpc = "thrown" => Includes(settled.message, ToString(attempt + 1))

\* every attempt the executor was allowed failed with a retryable error
AllAttemptsRetryable ==
    \A k \in 1..(maxRetries + 1) :
        plan[k].kind = "error" /\ isTransientError(plan[k].message)

\* C32: with maxRetries = 2 and every attempt failing with a retryable
\* error, retryWithBackoff invokes the operation exactly 3 times, sleeps
\* 1000 ms and then 2000 ms, throws as soon as the third attempt has failed
\* (3000 ms of waiting in all, never a delay of 4000 ms) and throws the error
\* of the third attempt
C32_ThreeAttemptsThenLastError ==
    (maxRetries = DefaultMaxRetries /\ AllAttemptsRetryable) =>
        /\ \A k \in 1..Len(waits["operation"]) : waits["operation"][k] # 4000
        /\ rpc # "returned"
        /\ rpc = "thrown" =>
            /\ calls["operation"] = 3
            /\ waits["operation"] = << 1000, 2000 >>
            /\ now = 3000
            /\ settled = plan[3]
            /\ settled = outcomes[3]

\* witness of C32: three retryable failures, the third with another message
\* than the first two
C32_Witness ==
    /\ maxRetries = DefaultMaxRetries
    /\ AllAttemptsRetryable
    /\ rpc = "thrown"
    /\ plan[1].message = "connection timeout"
    /\ plan[2].message = "connection timeout"
    /\ settled.message = "network unreachable"

\* C22: when retryWithBackoff gives up (a non-retryable error, or any error
\* on the last allowed attempt) the error it throws is the error of the last
\* invocation, with nothing added to it; the number of attempts made,
\* attempt + 1, is the number of invocations.
C22_LastErrorRethrown ==
    rpc = "thrown" =>
        /\ settled.kind = "error"
        /\ GivesUp(attempt, maxRetries, settled.message)
        /\ Len(outcomes) = attempt + 1
        /\ calls["operation"] = attempt + 1
        /\ settled = outcomes[attempt + 1]
        /\ settled = plan[attempt + 1]

\* witness of C22: a retryable error on the last allowed attempt (the third)
C22_Witness ==
    /\ rpc = "thrown"
    /\ maxRetries = 2
    /\ attempt = 2
    /\ isTransientError(settled.message)

\* witness of C22: a non-retryable error on the second of four attempts
C22_WitnessNonRetryable ==
    /\ rpc = "thrown"
    /\ maxRetries = 3
    /\ attempt = 1
    /\ ~isTransientError(settled.message)

(***************************************************************************)
(* More JavaScript string primitives.  A TLA+ string cannot hold a         *)
(* backquote: "~" stands for that character and occurs for nothing else.   *)
(***************************************************************************)
WhiteSpace == { " ", "\t", "\n", "\r", "\f" }

IsSpace(s, i) == CharAt(s, i) \in WhiteSpace

\* String.prototype.startsWith
StartsWith(s, p) == Len(s) >= Len(p) /\ SubSeq(s, 1, Len(p)) = p

\* String.prototype.trim
Trim(s) ==
    IF \A i \in 1..Len(s) : IsSpace(s, i) THEN ""
    ELSE LET first == CHOOSE i \in 1..Len(s) :
                          ~IsSpace(s, i) /\ \A j \in 1..(i - 1) : IsSpace(s, j)
             last  == CHOOSE i \in 1..Len(s) :
                          ~IsSpace(s, i) /\ \A j \in (i + 1)..Len(s) : IsSpace(s, j)
         IN  SubSeq(s, first, last)

\* String.prototype.substring(0, n)
Substring0(s, n) == IF n >= Len(s) THEN s ELSE SubSeq(s, 1, n)

\* String.prototype.lastIndexOf for a one-character needle (0-based, -1 if absent)
LastIndexOf(s, c) ==
    IF \E i \in 1..Len(s) : CharAt(s, i) = c
    THEN (CHOOSE i \in 1..Len(s) :
              CharAt(s, i) = c /\ \A j \in (i + 1)..Len(s) : CharAt(s, j) # c) - 1
    ELSE -1

(***************************************************************************)
(* GeminiService.cleanAudioScript and GeminiService.countWords             *)
(***************************************************************************)
Fence == "~~~"

IsLowerLetter(c) == \E i \in 1..26 : CharAt(LowerCaseLetters, i) = c

\* number of characters the expressions [a-z]*\n? (letters = TRUE) or \n?
\* consume in s from position i on
FenceTail(s, i, letters) ==
    LET run == IF letters
               THEN CHOOSE k \in 0..(Len(s) - i + 1) :
                        /\ \A j \in i..(i + k - 1) : IsLowerLetter(CharAt(s, j))
                        /\ (i + k > Len(s) \/ ~IsLowerLetter(CharAt(s, i + k)))
               ELSE 0
    IN  IF i + run <= Len(s) /\ CharAt(s, i + run) = "\n" THEN run + 1 ELSE run

\* s.replace(re, '') for the global expressions made of a literal opener, an
\* optional run of lower-case letters and an optional line feed:
\* /```[a-z]*\n?/g, /```json\n?/g and /```\n?/g
RECURSIVE RemoveFences(_, _, _)
RemoveFences(s, opener, letters) ==
    LET n == Len(opener)
        hit(i) == SubSeq(s, i, i + n - 1) = opener
    IN  IF ~ \E i \in 1..(Len(s) - n + 1) : hit(i) THEN s
        ELSE LET at == CHOOSE i \in 1..(Len(s) - n + 1) :
                           hit(i) /\ \A j \in 1..(i - 1) : ~hit(j)
                 skip == n + FenceTail(s, at + n, letters)
             IN  SubSeq(s, 1, at - 1)
                     \o RemoveFences(SubSeq(s, at + skip, Len(s)), opener, letters)

Quotes == { "\"", "'" }

\* replace(/^["']|["']$/g, '')
StripQuotes(s) ==
    LET lead == Len(s) >= 1 /\ CharAt(s, 1) \in Quotes
        tail == Len(s) >= (IF lead THEN 2 ELSE 1) /\ CharAt(s, Len(s)) \in Quotes
    IN  SubSeq(s, IF lead THEN 2 ELSE 1, IF tail THEN Len(s) - 1 ELSE Len(s))

\* replace(/\s+/g, ' ') on the characters lo..hi of s
RECURSIVE CollapseRange(_, _, _)
CollapseRange(s, lo, hi) ==
    IF lo > hi THEN ""
    ELSE IF lo = hi
         THEN IF ~IsSpace(s, lo) THEN CharAt(s, lo)
              ELSE IF lo = 1 \/ ~IsSpace(s, lo - 1) THEN " " ELSE ""
         ELSE CHOOSE collapsed \in {
                  CollapseRange(s, lo, mid) \o CollapseRange(s, mid + 1, hi)
                  : mid \in { (lo + hi) \div 2 } } : TRUE

CollapseSpaces(s) == CollapseRange(s, 1, Len(s))

\* each intermediate string is bound once, as the `let cleaned` of the
\* method is
cleanAudioScript(text) ==
    CHOOSE cleaned \in {
        Trim(collapsed) : collapsed \in {
            CollapseSpaces(unquoted) : unquoted \in {
                StripQuotes(unfenced) : unfenced \in {
                    IF StartsWith(trimmed, Fence)
                    THEN RemoveFences(RemoveFences(trimmed, Fence, TRUE), Fence, FALSE)
                    ELSE trimmed : trimmed \in { Trim(text) } } } } } : TRUE

\* text.split(/\s+/).filter(word => word.length > 0).length
countWords(text) ==
    Cardinality({ i \in 1..Len(text) :
                    ~IsSpace(text, i) /\ (i = 1 \/ IsSpace(text, i - 1)) })

(***************************************************************************)
(* GeminiService.generateAudioScript: the length rules                     *)
(***************************************************************************)
MaxScriptChars == 800
SentenceFloor == 600
MinWords == 110
MaxWords == 150

\* mutant: the cut at a sentence end is taken from the untruncated text
TruncateScriptAtAnyPeriod(s) ==
    LET lastPeriod == LastIndexOf(s, ".")
    IN  IF lastPeriod > SentenceFloor
        THEN Substring0(s, lastPeriod + 1)
        ELSE Trim(Substring0(s, MaxScriptChars))

\* mutant: the cut at a sentence end is not attempted
TruncateScriptHardCut(s) == Trim(Substring0(s, MaxScriptChars))

\* lines 624-627 and 655-657
TruncateScript(s) ==
    CHOOSE cut \in {
        LET lastPeriod == LastIndexOf(truncated, ".")
        IN  IF lastPeriod > SentenceFloor
            THEN Substring0(truncated, lastPeriod + 1)
            ELSE truncated
        : truncated \in { Trim(Substring0(s, MaxScriptChars)) } } : TRUE

\* mutant: only scripts over 900 characters count as too long
TooLongLenient(s) == Len(s) > 900

\* charCount > 800
TooLong(s) == Len(s) > MaxScriptChars

\* wordCount < 110 || wordCount > 150
OutOfRange(n) == n < MinWords \/ n > MaxWords

(***************************************************************************)
(* The catch blocks of the services                                        *)
(***************************************************************************)
GeminiTimeoutMessage == "Gemini API timeout"

\* the message of the TypeError raised by response.candidates[0] on a
\* response without candidates
NoCandidatesMessage == "Cannot read properties of undefined (reading '0')"

\* mutant: credentials and rate limits are recognised before timeouts
GeminiCatchPermanentFirst(prefix, msg) ==
    IF Includes(msg, "API key") \/ Includes(msg, "authentication")
    THEN "Invalid Gemini API credentials. Please check your configuration."
    ELSE IF Includes(msg, "quota") \/ Includes(msg, "rate limit")
    THEN "Gemini API rate limit exceeded. Please try again later."
    ELSE IF Includes(msg, "timeout")
    THEN "Gemini API timeout. Please try again."
    ELSE prefix \o msg

\* GeminiService: the catch block of every public method
GeminiCatch(prefix, msg) ==
    IF Includes(msg, "timeout")
    THEN "Gemini API timeout. Please try again."
    ELSE IF Includes(msg, "API key") \/ Includes(msg, "authentication")
    THEN "Invalid Gemini API credentials. Please check your configuration."
    ELSE IF Includes(msg, "quota") \/ Includes(msg, "rate limit")
    THEN "Gemini API rate limit exceeded. Please try again later."
    ELSE prefix \o msg

\* ElevenLabsService.synthesizeSpeech: the catch block
ElevenLabsCatch(msg) ==
    IF Includes(msg, "quota") \/ Includes(msg, "rate limit")
    THEN "ElevenLabs rate limit exceeded. Please try again later."
    ELSE IF Includes(msg, "authentication") \/ Includes(msg, "API key")
    THEN "ElevenLabs authentication failed. Please check API key configuration."
    ELSE IF Includes(msg, "Script cannot be empty")
    THEN msg
    ELSE "Audio synthesis failed: " \o (IF msg = "" THEN "Unknown error" ELSE msg)

(***************************************************************************)
(* What the text-generation service can answer to a request                *)
(***************************************************************************)
TextResponse(t) == [kind |-> "text", body |-> t, message |-> ""]
FailureResponse(m) == [kind |-> "error", body |-> "", message |-> m]
\* a response without candidates
EmptyResponse == [kind |-> "empty", body |-> "", message |-> ""]
\* the 30 s timer of Promise.race settles first
TimerResponse == [kind |-> "timer", body |-> "", message |-> ""]
\* no answer consumed yet
NoResponse == [kind |-> "none", body |-> "", message |-> ""]

\* mutant: the request is cancelled when its timer fires first
RaceDecidedTimerCancels(resp) ==
    losers' = IF resp.kind = "timer" THEN losers ELSE losers \cup { "timer" }

\* Promise.race([generateContent(prompt), timer]) settles with resp: the other
\* one of the two stays pending, nothing cancels it
RaceDecided(resp) ==
    losers' = losers \cup { IF resp.kind = "timer" THEN "remote" ELSE "timer" }

\* the message of the error the service's try block ends with
ThrownMessage(resp) ==
    IF resp.kind = "timer" THEN GeminiTimeoutMessage
    ELSE IF resp.kind = "empty" THEN NoCandidatesMessage
    ELSE resp.message

(***************************************************************************)
(* JavaScript values as JSON.parse produces them, tagged with their type   *)
(***************************************************************************)
Undefined == [t |-> "undefined"]
Null == [t |-> "null"]
Str(x) == [t |-> "string", v |-> x]
Arr(x) == [t |-> "array", items |-> x]
Obj(x) == [t |-> "object", props |-> x]
Num(x) == [t |-> "number", n |-> x]
Bool(x) == [t |-> "boolean", b |-> x]
\* a text that is no JSON document
NotJson == [t |-> "notjson"]

\* !x is false
Truthy(x) ==
    \/ x.t \in { "array", "object" }
    \/ x.t = "string" /\ x.v # ""
    \/ x.t = "number" /\ x.n # 0
    \/ x.t = "boolean" /\ x.b

(***************************************************************************)
(* GeminiService.generateAudioScript                                       *)
(***************************************************************************)
ScriptOperation == "Audio script generation"
ScriptCatchPrefix == "Failed to generate audio script: "

\* retryWordCount >= 110 && retryWordCount <= 150
InRange(n) == n >= MinWords /\ n <= MaxWords

\* mutant: the word count is looked at before the length
ScriptAfterDraftWordsFirst(text) ==
    LET cleaned == cleanAudioScript(text)
        words == countWords(cleaned)
    IN  IF OutOfRange(words)
        THEN [next |-> "regen", script |-> cleaned, wordCount |-> words, value |-> ""]
        ELSE IF TooLong(cleaned)
        THEN [next |-> "return", script |-> cleaned, wordCount |-> words,
              value |-> TruncateScript(cleaned)]
        ELSE [next |-> "return", script |-> cleaned, wordCount |-> words,
              value |-> cleaned]

\* lines 612-670 up to the regeneration request: what the method does with
\* the text of the first draft
ScriptAfterDraft(text) ==
    CHOOSE step \in {
        IF TooLong(cleaned)
        THEN [next |-> "return", script |-> cleaned, wordCount |-> words,
              value |-> TruncateScript(cleaned)]
        ELSE IF OutOfRange(words)
        THEN [next |-> "regen", script |-> cleaned, wordCount |-> words, value |-> ""]
        ELSE [next |-> "return", script |-> cleaned, wordCount |-> words,
              value |-> cleaned]
        : <<cleaned, words>> \in { <<c, countWords(c)>> :
                                       c \in { cleanAudioScript(text) } } } : TRUE

\* mutant: an out-of-range regeneration is regenerated again
ScriptAfterRegenAgain(original, words, retryText) ==
    LET retryScript == cleanAudioScript(retryText)
        retryWordCount == countWords(retryScript)
    IN  IF TooLong(retryScript)
        THEN [next |-> "return", script |-> original, wordCount |-> words,
              value |-> TruncateScript(retryScript)]
        ELSE IF InRange(retryWordCount)
        THEN [next |-> "return", script |-> original, wordCount |-> words,
              value |-> retryScript]
        ELSE [next |-> "regen", script |-> retryScript, wordCount |-> retryWordCount,
              value |-> ""]

\* mutant: the regenerated script is returned unchecked when it is in range
\* by words, and its length is looked at only afterwards
ScriptAfterRegenWordsFirst(original, words, retryText) ==
    LET retryScript == cleanAudioScript(retryText)
        retryWordCount == countWords(retryScript)
    IN  [next |-> "return", script |-> original, wordCount |-> words,
         value |-> IF InRange(retryWordCount) THEN retryScript
                   ELSE IF TooLong(retryScript) THEN TruncateScript(retryScript)
                   ELSE original]

\* how far a word count is from the range 110..150
RangeDistance(n) == IF n < MinWords THEN MinWords - n ELSE IF n > MaxWords THEN n - MaxWords ELSE 0

\* mutant: of two scripts out of range, the one closer to the range is returned
ScriptAfterRegenClosest(original, words, retryText) ==
    LET retryScript == cleanAudioScript(retryText)
        retryWordCount == countWords(retryScript)
    IN  IF TooLong(retryScript)
        THEN [next |-> "return", script |-> original, wordCount |-> words,
              value |-> TruncateScript(retryScript)]
        ELSE [next |-> "return", script |-> original, wordCount |-> words,
              value |-> IF RangeDistance(retryWordCount) < RangeDistance(words)
                        THEN retryScript ELSE original]

\* mutant: a regenerated script that is too long is dropped for the original
ScriptAfterRegenTooLongDropped(original, words, retryText) ==
    LET retryScript == cleanAudioScript(retryText)
        retryWordCount == countWords(retryScript)
    IN  [next |-> "return", script |-> original, wordCount |-> words,
         value |-> IF ~TooLong(retryScript) /\ InRange(retryWordCount)
                   THEN retryScript ELSE original]

\* lines 644-667: what the method does with the text of the regeneration
ScriptAfterRegen(original, words, retryText) ==
    CHOOSE step \in {
        IF TooLong(retryScript)
        THEN [next |-> "return", script |-> original, wordCount |-> words,
              value |-> TruncateScript(retryScript)]
        ELSE [next |-> "return", script |-> original, wordCount |-> words,
              value |-> IF InRange(retryWordCount) THEN retryScript ELSE original]
        : <<retryScript, retryWordCount>> \in { <<c, countWords(c)>> :
                                       c \in { cleanAudioScript(retryText) } } } : TRUE

\* the two interpolations of the prompt template: the persona and the
\* wordCountGuidance, which `previousWordCount ? ... : ''` computes
buildAudioScriptPrompt(p, previousWordCount) ==
    [ persona |-> p,
      wordCountGuidance |->
          IF Truthy(previousWordCount)
          THEN "\nIMPORTANT: Your previous attempt had " \o ToString(previousWordCount.n)
                   \o " words. Please adjust to be between 110-130 words exactly."
          ELSE "" ]

\* generateAudioScript(persona) is entered: the draft request is issued
GenerateAudioScriptStarts ==
    /\ svc' = "request"
    /\ script' = ""
    /\ wordCount' = 0
    /\ requests' = [requests EXCEPT ![ScriptOperation] = @ + 1]
    /\ sent' = [operation |-> ScriptOperation, input |-> persona,
                wordCountGuidance |->
                    buildAudioScriptPrompt(persona, Undefined).wordCountGuidance]

\* mutant: when the regeneration request fails the first draft is returned
GenerateAudioScriptResumesFallsBack(resp) ==
    /\ svc \in { "request", "regen" }
    /\ IF resp.kind # "text"
       THEN /\ svc' = "done"
            /\ fnOutcome' = IF svc = "regen" THEN Value(script)
                            ELSE Error(GeminiCatch(ScriptCatchPrefix, ThrownMessage(resp)))
            /\ UNCHANGED <<script, wordCount, requests, sent>>
       ELSE \E step \in { IF svc = "request"
                            THEN ScriptAfterDraft(resp.body)
                            ELSE ScriptAfterRegen(script, wordCount, resp.body) } :
                /\ script' = step.script
                /\ wordCount' = step.wordCount
                /\ IF step.next = "regen"
                   THEN /\ svc' = "regen"
                        /\ requests' = [requests EXCEPT ![ScriptOperation] = @ + 1]
                        /\ sent' = [sent EXCEPT !.wordCountGuidance =
                                        buildAudioScriptPrompt(
                                            sent.input, Num(step.wordCount)).wordCountGuidance]
                        /\ UNCHANGED fnOutcome
                   ELSE /\ svc' = "done"
                        /\ fnOutcome' = Value(step.value)
                        /\ UNCHANGED <<requests, sent>>

\* generateAudioScript resumes from one of its two awaits with the answer resp
GenerateAudioScriptResumes(resp) ==
    /\ svc \in { "request", "regen" }
    /\ IF resp.kind # "text"
       THEN /\ svc' = "done"
            /\ fnOutcome' = Error(GeminiCatch(ScriptCatchPrefix, ThrownMessage(resp)))
            /\ UNCHANGED <<script, wordCount, requests, sent>>
       ELSE \E step \in { IF svc = "request"
                            THEN ScriptAfterDraft(resp.body)
                            ELSE ScriptAfterRegen(script, wordCount, resp.body) } :
                /\ script' = step.script
                /\ wordCount' = step.wordCount
                /\ IF step.next = "regen"
                   THEN /\ svc' = "regen"
                        /\ requests' = [requests EXCEPT ![ScriptOperation] = @ + 1]
                        /\ sent' = [sent EXCEPT !.wordCountGuidance =
                                        buildAudioScriptPrompt(
                                            sent.input, Num(step.wordCount)).wordCountGuidance]
                        /\ UNCHANGED fnOutcome
                   ELSE /\ svc' = "done"
                        /\ fnOutcome' = Value(step.value)
                        /\ UNCHANGED <<requests, sent>>

(***************************************************************************)
(* Texts the text-generation service may answer a script request with      *)
(***************************************************************************)
RECURSIVE Rep(_, _)
Rep(u, n) ==
    IF n = 0 THEN ""
    ELSE IF n = 1 THEN u
    ELSE LET h == Rep(u, n \div 2) IN h \o h \o (IF n % 2 = 1 THEN u ELSE "")

\* n words of w letters each, separated by single spaces
Words(n, w) == SubSeq(Rep(Rep("a", w) \o " ", n), 1, n * (w + 1) - 1)

\* s with its i-th character (counted from 1) replaced by c
SetChar(s, i, c) == SubSeq(s, 1, i - 1) \o c \o SubSeq(s, i + 1, Len(s))

DraftTexts ==
    { Words(120, 5), Words(110, 5), Words(150, 4),          \* accepted as they are
      Words(114, 6) \o "aaa",                                \* 800 characters, 114 words
      Words(109, 5), Words(151, 4), Words(90, 5),            \* out of range, short enough
      Words(160, 4), Words(160, 4) \o "a",                   \* 799 and 800 characters
      "", " \n ",                                            \* no word at all
      Words(150, 5),                                         \* 899 characters, no period
      Words(134, 5),                                         \* 803 characters, 134 words
      SetChar(Words(150, 5), 650, "."),                      \* period at character 650
      SetChar(Words(150, 5), 601, "."),                      \* period at offset 600
      SetChar(Words(150, 5), 602, "."),                      \* period at offset 601
      SetChar(SetChar(Words(150, 5), 650, "."), 700, "."),   \* two periods
      SetChar(Words(150, 5), 850, "."),                      \* period after the cut
      SetChar(Words(150, 5), 100, "."),                      \* period far before
      Words(180, 4),                                         \* 800th character is a space
      SetChar(Words(180, 4), 799, "."),                      \* period right before it
      Rep("a", 801),                                         \* one word, too long
      "~~~\n" \o Words(120, 5) \o "\n~~~",                   \* fenced
      "~~~text\n" \o Words(90, 5) \o "\n~~~",
      "\"" \o Words(120, 5) \o "\"",                         \* quoted
      "'" \o Words(150, 5) \o "'",
      Rep("aaaaa  \n", 120),                                 \* 960 characters raw
      "  " \o Words(160, 4) \o "a \n" }

\* messages of the errors the text-generation client may reject with
UpstreamErrors ==
    { "socket hang up", "Bad Request", "quota exceeded", "quota exceeded after timeout",
      "API key not valid", "Rate limit reached" }

ScriptResponses ==
    { TextResponse(t) : t \in DraftTexts }
        \cup { FailureResponse(m) : m \in UpstreamErrors }
        \cup { EmptyResponse, TimerResponse }

(***************************************************************************)
(* Specification of generateAudioScript on its own                         *)
(***************************************************************************)
InitScript ==
    /\ message = "" /\ classified = FALSE /\ verdict = FALSE
    /\ RetryOff
    /\ plan = <<>>
    /\ svc = "start"
    /\ script = ""
    /\ wordCount = 0
    /\ requests = [n \in OperationNames |-> 0]
    /\ sent = NoCall
    /\ PipelineOff

ScriptCalled ==
    /\ svc = "start"
    /\ GenerateAudioScriptStarts
    /\ UNCHANGED <<clsVars, retryVars, plan, pairVars, uiVars, parseVars, clockVars, pipeVars, losers>>

ScriptAnswered ==
    /\ \E resp \in ScriptResponses :
        /\ upstream' = resp
        /\ RaceDecided(resp)
        /\ GenerateAudioScriptResumes(resp)
    /\ UNCHANGED <<clsVars, plan, pairVars, uiVars, parseVars, clockVars>>
    /\ UNCHANGED <<stage, analysis, persona, audioScript, audioUrl, result>>
    /\ UNCHANGED <<rpc, operationName, maxRetries, attempt, lastError, settled,
                   outcomes, calls, waits>>

NextScript == ScriptCalled \/ ScriptAnswered

SpecScript == InitScript /\ [][NextScript]_vars

\* every request is answered in the end, by the service or by the 30 s timer
SpecScriptLive == SpecScript /\ WF_vars(NextScript)

\* C9: every string generateAudioScript returns has at most 800 characters.
C9_ScriptAtMost800 ==
    (svc = "done" /\ fnOutcome.kind = "value") => Len(fnOutcome.value) <= 800

\* witness of C9: a regenerated draft of more than 800 characters was cut
\* at its last sentence end and returned
C9_Witness ==
    /\ svc = "done"
    /\ requests[ScriptOperation] = 2
    /\ fnOutcome.kind = "value"
    /\ Len(fnOutcome.value) = 700

\* further branches of C9: hard cut of the first draft, accepted draft of
\* exactly 800 characters, fallback to the original draft
C9_WitnessHardCut ==
    /\ svc = "done" /\ requests[ScriptOperation] = 1
    /\ fnOutcome.kind = "value" /\ Len(fnOutcome.value) = 800
    /\ Len(script) = 899

C9_WitnessFallback ==
    /\ svc = "done" /\ requests[ScriptOperation] = 2
    /\ fnOutcome.kind = "value" /\ fnOutcome.value = script
    /\ Len(script) = 800

\* C10: one invocation of generateAudioScript issues at most two requests, a
\* second request being the only regeneration, and it ends with a value or
\* an error whatever the answers are.
C10_AtMostTwoRequests ==
    /\ [](/\ requests[ScriptOperation] <= 2
          /\ (svc = "regen" => requests[ScriptOperation] = 2)
          /\ (svc = "done" <=> fnOutcome.kind \in { "value", "error" }))
    /\ <>[](svc = "done")

\* witness of C10: the invocation ended after a regeneration
C10_Witness ==
    /\ svc = "done"
    /\ requests[ScriptOperation] = 2
    /\ fnOutcome.kind = "value"

\* the invocation returned after its first request; script is the cleaned draft
ReturnedDraft ==
    svc = "done" /\ fnOutcome.kind = "value" /\ requests[ScriptOperation] = 1

\* the invocation returned after the regeneration was answered with a text;
\* script is the cleaned first draft
ReturnedAfterRegen ==
    /\ svc = "done" /\ fnOutcome.kind = "value" /\ requests[ScriptOperation] = 2
    /\ upstream.kind = "text"

\* C27: generateAudioScript issues a regeneration request if and only if the
\* cleaned draft has at most 800 characters and fewer than 110 or more than
\* 150 words; a longer draft is truncated and returned after one request
\* whatever its word count, and a draft of at most 800 characters and
\* 110..150 words is returned unchanged after one request.
C27_RegenerationIff ==
    /\ [][(svc = "request" /\ upstream'.kind = "text") =>
            \E cleaned \in { cleanAudioScript(upstream'.body) } :
            \E words \in { countWords(cleaned) } :
            \E regenerates \in { Len(cleaned) <= 800 /\ (words < 110 \/ words > 150) } :
                /\ script' = cleaned
                /\ regenerates <=> (svc' = "regen" /\ requests' # requests)
                /\ ~regenerates <=> (svc' = "done" /\ requests' = requests)]_vars
    /\ [](requests[ScriptOperation] = 2 =>
            Len(script) <= 800 /\ (countWords(script) < 110 \/ countWords(script) > 150))
    /\ [](ReturnedDraft =>
            IF Len(script) > 800
            THEN /\ fnOutcome.value = TruncateScript(script)
                 /\ Len(fnOutcome.value) < Len(script)
                 /\ StartsWith(script, fnOutcome.value)
            ELSE /\ countWords(script) >= 110 /\ countWords(script) <= 150
                 /\ fnOutcome.value = script)

\* witness of C27: a draft of 801 characters and one word was cut and
\* returned after one request
C27_Witness ==
    /\ ReturnedDraft
    /\ Len(script) = 801
    /\ countWords(script) = 1

\* witnesses of C27: 800 characters and 160 words regenerated; 110 words
\* returned unchanged
C27_WitnessRegenerated ==
    /\ svc = "regen"
    /\ Len(script) = 800
    /\ wordCount = 160

C27_WitnessUnchanged ==
    /\ ReturnedDraft
    /\ countWords(script) = 110
    /\ fnOutcome.value = script

\* C28: when the cleaned regenerated draft has more than 800 characters,
\* generateAudioScript returns that draft cut by the rule of the first draft
\* (its first 800 characters without trailing white space, ending at their
\* last period when that period lies after offset 600), whatever the word
\* counts of the two drafts are.
C28_LongRegenerationTruncated ==
    ReturnedAfterRegen =>
        \E retryScript \in { cleanAudioScript(upstream.body) } :
            Len(retryScript) > 800 =>
                \E cut \in { Trim(Substring0(retryScript, 800)) } :
                    /\ fnOutcome.value =
                          IF LastIndexOf(cut, ".") > 600
                          THEN Substring0(cut, LastIndexOf(cut, ".") + 1)
                          ELSE cut
                    /\ fnOutcome.value = TruncateScript(retryScript)
                    /\ StartsWith(retryScript, fnOutcome.value)
                    /\ Len(fnOutcome.value) < Len(retryScript)

\* witness of C28: the original has 90 words, the regenerated draft 134 words
\* (in range) and 803 characters: its first 800 characters are returned
C28_Witness ==
    /\ ReturnedAfterRegen
    /\ countWords(script) = 90
    /\ Len(cleanAudioScript(upstream.body)) = 803
    /\ countWords(cleanAudioScript(upstream.body)) = 134
    /\ Len(fnOutcome.value) = 800
    /\ fnOutcome.value # script

\* witness of C28: the regenerated draft is cut at its last period
C28_WitnessSentence ==
    /\ ReturnedAfterRegen
    /\ Len(cleanAudioScript(upstream.body)) = 899
    /\ Len(fnOutcome.value) = 700
    /\ CharAt(fnOutcome.value, 700) = "."

\* C29: the prompt of every regeneration request holds the word count of
\* the rejected draft, whatever that count is (0 included), and the prompt of
\* the first request holds no such guidance.
C29_RegenerationCarriesWordCount ==
    /\ svc = "request" => sent.wordCountGuidance = ""
    /\ svc = "regen" =>
          /\ wordCount = countWords(script)
          /\ Includes(sent.wordCountGuidance,
                      "Your previous attempt had " \o ToString(wordCount) \o " words")

\* C29 for the drafts that hold a word: the guidance names their word count
C29_NonZeroWordCountCarried ==
    (svc = "regen" /\ wordCount # 0) =>
        sent.wordCountGuidance =
            "\nIMPORTANT: Your previous attempt had " \o ToString(countWords(script))
                \o " words. Please adjust to be between 110-130 words exactly."

\* C11: a cleaned draft of at most 800 characters with a word count outside
\* 110..150 causes exactly one regeneration request; a regenerated text of at
\* most 800 characters is returned when its word count is in 110..150, and
\* otherwise the original draft is returned, however close either one is.
C11_RegenerationTieBreak ==
    /\ requests[ScriptOperation] <= 2
    /\ svc = "regen" =>
          requests[ScriptOperation] = 2 /\ ~TooLong(script) /\ OutOfRange(wordCount)
    /\ ReturnedDraft => (TooLong(script) \/ ~OutOfRange(countWords(script)))
    /\ ReturnedAfterRegen =>
          LET retryScript == cleanAudioScript(upstream.body)
              retryWords == countWords(retryScript)
          IN  /\ ~TooLong(script) /\ OutOfRange(countWords(script))
              /\ (Len(retryScript) <= 800 /\ retryWords >= 110 /\ retryWords <= 150)
                    => fnOutcome.value = retryScript
              /\ (Len(retryScript) <= 800 /\ (retryWords < 110 \/ retryWords > 150))
                    => fnOutcome.value = script

\* a draft of 90 words was regenerated as 109 words, and the 90 were returned
C11_Witness ==
    /\ ReturnedAfterRegen
    /\ countWords(script) = 90
    /\ countWords(cleanAudioScript(upstream.body)) = 109
    /\ fnOutcome.value = script

\* a draft of 90 words was regenerated as 120 words, which were returned
C11_WitnessRegenerated ==
    /\ ReturnedAfterRegen
    /\ countWords(script) = 90
    /\ countWords(fnOutcome.value) = 120
    /\ fnOutcome.value # script

\* offset of the last period of the first 800 characters, -1 without one
LastPeriodInBudget(s) == LastIndexOf(Substring0(s, 800), ".")

\* C12: a cleaned draft of more than 800 characters whose first 800
\* characters have a period after offset 600 is returned cut right after
\* that period (the last one of the first 800 characters).
C12_CutAtSentenceEnd ==
    (ReturnedDraft /\ Len(script) > 800 /\ LastPeriodInBudget(script) > 600) =>
        /\ fnOutcome.value = Substring0(script, LastPeriodInBudget(script) + 1)
        /\ CharAt(fnOutcome.value, Len(fnOutcome.value)) = "."
        /\ Len(fnOutcome.value) > 601

\* the draft of 899 characters with a period at character 650
C12_Witness ==
    /\ ReturnedDraft
    /\ Len(script) = 899
    /\ LastPeriodInBudget(script) = 649
    /\ Len(fnOutcome.value) = 650

\* C13 as stated: a cleaned draft of more than 800 characters without a
\* period after offset 600 in its first 800 characters is returned as exactly
\* its first 800 characters.
C13_ExactlyFirst800 ==
    (ReturnedDraft /\ Len(script) > 800 /\ LastPeriodInBudget(script) <= 600) =>
        (Len(fnOutcome.value) = 800 /\ fnOutcome.value = Substring0(script, 800))

\* C13 amended: such a draft is returned as its first 800 characters without
\* the white space they end with: a prefix of the draft that does not end
\* with white space and is followed only by white space up to character 800.
C13_First800Trimmed ==
    (ReturnedDraft /\ Len(script) > 800 /\ LastPeriodInBudget(script) <= 600) =>
        LET n == Len(fnOutcome.value)
        IN  /\ n <= 800
            /\ fnOutcome.value = Substring0(script, n)
            /\ \A i \in (n + 1)..800 : IsSpace(script, i)
            /\ n > 0 => ~IsSpace(script, n)

\* a draft whose 800th character is a space is returned as 799 characters
C13_Witness ==
    /\ ReturnedDraft
    /\ Len(script) > 800 /\ LastPeriodInBudget(script) <= 600
    /\ Len(fnOutcome.value) = 799

\* a draft of 899 characters without any period is returned as 800 characters
C13_WitnessHardCut ==
    /\ ReturnedDraft
    /\ Len(script) = 899 /\ LastPeriodInBudget(script) = -1
    /\ Len(fnOutcome.value) = 800

\* x[f] for a value x that is neither undefined nor null
Get(x, f) == IF x.t = "object" /\ f \in DOMAIN x.props THEN x.props[f] ELSE Undefined

\* Array.isArray
IsArray(x) == x.t = "array"

\* o.f = value for an object o
SetProp(o, f, value) ==
    Obj([k \in (DOMAIN o.props) \cup { f } |-> IF k = f THEN value ELSE o.props[k]])

(***************************************************************************)
(* The text of a response expected to hold a JSON document: the document   *)
(* and the characters before and after it                                  *)
(***************************************************************************)
JsonText(before, document, after) ==
    [prefix |-> before, doc |-> document, suffix |-> after]

JsonSpace == { " ", "\t", "\n", "\r" }

JsonFence == "~~~json"

\* String.prototype.trim seen from one end of a longer text
TrimStart(s) == LET t == Trim(s \o "x") IN SubSeq(t, 1, Len(t) - 1)
TrimEnd(s) == LET t == Trim("x" \o s) IN SubSeq(t, 2, Len(t))

\* lines 377-382 and 459-464: trim, removal of the code fences when the text
\* starts with one, JSON.parse; ok is FALSE when JSON.parse throws
JsonParse(text) ==
    LET before == TrimStart(text.prefix)
        after == TrimEnd(text.suffix)
        fenced == StartsWith(before, Fence)
        strip(x) == IF fenced
                    THEN RemoveFences(RemoveFences(x, JsonFence, FALSE), Fence, FALSE)
                    ELSE x
        blank(x) == \A i \in 1..Len(x) : CharAt(x, i) \in JsonSpace
    IN  [ok |-> text.doc.t # "notjson" /\ blank(strip(before)) /\ blank(strip(after)),
         doc |-> text.doc]

\* the message of the SyntaxError of JSON.parse
JsonSyntaxMessage == "Unexpected token in JSON"

ParseFailure(m) == Error("Failed to parse Gemini response: " \o m)

validVerbosity == { Str("low"), Str("medium"), Str("high") }

(***************************************************************************)
(* GeminiService.parseProfileAnalysis                                      *)
(***************************************************************************)
parseProfileAnalysis(text) ==
    CHOOSE returned \in {
        LET parsed == json.doc
            style == Get(parsed, "communicationStyle")
        IN  IF ~json.ok THEN ParseFailure(JsonSyntaxMessage)
            ELSE IF parsed.t = "null"
            THEN ParseFailure("Cannot read properties of null (reading 'professionalContext')")
            ELSE IF \/ ~Truthy(Get(parsed, "professionalContext"))
                    \/ ~Truthy(style)
                    \/ ~Truthy(Get(parsed, "inferredDesignPreferences"))
                    \/ ~Truthy(Get(parsed, "inferredContentPreferences"))
            THEN ParseFailure("Invalid profile analysis structure")
            ELSE IF Get(style, "verbosity") \in validVerbosity
            THEN Value(parsed)
            ELSE IF style.t = "string"
            THEN ParseFailure("Cannot create property 'verbosity' on string '"
                                  \o style.v \o "'")
            ELSE IF style.t \in { "number", "boolean" }
            THEN ParseFailure("Cannot create property 'verbosity' on " \o style.t)
            \* a property set on an array is none of its items
            ELSE IF style.t = "array"
            THEN Value(parsed)
            ELSE Value(SetProp(parsed, "communicationStyle",
                               SetProp(style, "verbosity", Str("medium"))))
        : json \in { JsonParse(text) } } : TRUE

(***************************************************************************)
(* GeminiService.parsePersonaResult                                        *)
(***************************************************************************)
requiredFields ==
    << "personaName", "summary", "professionalContext", "communicationStyle",
       "designBiases", "contentBiases", "briefConflicts", "designGuidance" >>

\* lines 478-482: the first required field that is missing, 0 without one
FirstMissing(parsed) ==
    LET missing == { i \in 1..Len(requiredFields) : ~Truthy(Get(parsed, requiredFields[i])) }
    IN  IF missing = {} THEN 0 ELSE CHOOSE i \in missing : \A j \in missing : i <= j

\* lines 485-503: the message of the first nested check that fails, "" without one
NestedProblem(parsed) ==
    LET context == Get(parsed, "professionalContext")
        style == Get(parsed, "communicationStyle")
        biases == Get(parsed, "designBiases")
        content == Get(parsed, "contentBiases")
    IN  IF \/ ~Truthy(Get(context, "role"))
           \/ ~Truthy(Get(context, "industry"))
           \/ ~Truthy(Get(context, "seniority"))
        THEN "Invalid professionalContext structure"
        ELSE IF ~Truthy(Get(style, "tone")) \/ ~Truthy(Get(style, "verbosity"))
        THEN "Invalid communicationStyle structure"
        ELSE IF ~Truthy(Get(biases, "visualStyle")) \/ ~Truthy(Get(biases, "uxPriority"))
        THEN "Invalid designBiases structure"
        ELSE IF ~IsArray(Get(content, "respondsTo")) \/ ~IsArray(Get(content, "avoids"))
        THEN "Invalid contentBiases structure"
        ELSE IF ~IsArray(Get(parsed, "briefConflicts"))
        THEN "briefConflicts must be an array"
        ELSE ""

\* x.length === 0 for an array x
LengthIsZero(x) == x.t = "array" /\ Len(x.items) = 0

\* mutant: the presence of do and avoid is not tested before their type
GuidanceProblemNoPresenceTest(guidance) ==
    IF ~IsArray(Get(guidance, "do")) \/ ~IsArray(Get(guidance, "avoid"))
    THEN "designGuidance.do and designGuidance.avoid must be arrays"
    ELSE IF LengthIsZero(Get(guidance, "do"))
    THEN "designGuidance.do must contain at least one item"
    ELSE IF LengthIsZero(Get(guidance, "avoid"))
    THEN "designGuidance.avoid must contain at least one item"
    ELSE ""

\* mutant: only the do list is required to hold an item
GuidanceProblemAvoidMayBeEmpty(guidance) ==
    IF ~Truthy(Get(guidance, "do")) \/ ~Truthy(Get(guidance, "avoid"))
    THEN "Invalid designGuidance structure"
    ELSE IF ~IsArray(Get(guidance, "do")) \/ ~IsArray(Get(guidance, "avoid"))
    THEN "designGuidance.do and designGuidance.avoid must be arrays"
    ELSE IF LengthIsZero(Get(guidance, "do"))
    THEN "designGuidance.do must contain at least one item"
    ELSE ""

\* lines 505-520: the message of the first check of designGuidance that fails
GuidanceProblem(guidance) ==
    IF ~Truthy(Get(guidance, "do")) \/ ~Truthy(Get(guidance, "avoid"))
    THEN "Invalid designGuidance structure"
    ELSE IF ~IsArray(Get(guidance, "do")) \/ ~IsArray(Get(guidance, "avoid"))
    THEN "designGuidance.do and designGuidance.avoid must be arrays"
    ELSE IF LengthIsZero(Get(guidance, "do"))
    THEN "designGuidance.do must contain at least one item"
    ELSE IF LengthIsZero(Get(guidance, "avoid"))
    THEN "designGuidance.avoid must contain at least one item"
    ELSE ""

\* mutant: a verbosity outside the enumeration is left as it is
RepairVerbosityNever(parsed) == parsed

\* lines 523-526: the one repair
RepairVerbosity(parsed) ==
    LET style == Get(parsed, "communicationStyle")
    IN  IF Get(style, "verbosity") \in validVerbosity
        THEN parsed
        ELSE SetProp(parsed, "communicationStyle",
                     SetProp(style, "verbosity", Str("medium")))

parsePersonaResult(text) ==
    CHOOSE returned \in {
        LET parsed == json.doc
        IN  IF ~json.ok THEN ParseFailure(JsonSyntaxMessage)
            ELSE IF parsed.t = "null"
            THEN ParseFailure("Cannot read properties of null (reading 'personaName')")
            ELSE IF FirstMissing(parsed) # 0
            THEN ParseFailure("Missing required field: "
                                  \o requiredFields[FirstMissing(parsed)])
            ELSE IF NestedProblem(parsed) # ""
            THEN ParseFailure(NestedProblem(parsed))
            ELSE IF GuidanceProblem(Get(parsed, "designGuidance")) # ""
            THEN ParseFailure(GuidanceProblem(Get(parsed, "designGuidance")))
            ELSE Value(RepairVerbosity(parsed))
        : json \in { JsonParse(text) } } : TRUE

(***************************************************************************)
(* Documents the text-generation service may answer with                   *)
(***************************************************************************)
Context == Obj([role |-> Str("Product Designer"), industry |-> Str("Technology"),
                seniority |-> Str("Senior")])

Style(verbosity) == Obj([tone |-> Str("Professional and formal"), verbosity |-> verbosity])

Preferences == Obj([visualStyle |-> Str("Clean and minimal"),
                    uxPriority |-> Str("Simplicity and clarity")])

Topics == Obj([respondsTo |-> Arr(<<Str("Data-driven insights")>>),
               avoids |-> Arr(<<Str("Superficial content")>>)])

AnalysisDocument(verbosity) ==
    Obj([professionalContext |-> Context,
         communicationStyle |-> Style(verbosity),
         inferredDesignPreferences |-> Preferences,
         inferredContentPreferences |-> Topics])

PersonaDocument(name, verbosity, do, avoid) ==
    Obj([personaName |-> name,
         summary |-> Str("Values clarity. Decides fast."),
         professionalContext |-> Context,
         communicationStyle |-> Style(verbosity),
         designBiases |-> Preferences,
         contentBiases |-> Topics,
         briefConflicts |-> Arr(<<Str("Brief asks for bold colours")>>),
         designGuidance |-> Obj([do |-> do, avoid |-> avoid])])

Advice == Arr(<<Str("Keep it simple")>>)

AnalysisTexts ==
    { JsonText("", AnalysisDocument(Str("low")), ""),
      JsonText("~~~json\n", AnalysisDocument(Str("extreme")), "\n~~~\n"),
      JsonText("Here is the analysis:\n~~~json\n", AnalysisDocument(Str("high")), "\n~~~"),
      JsonText("", Obj([professionalContext |-> Context]), ""),
      JsonText("", NotJson, "") }

PersonaTexts ==
    { JsonText("", PersonaDocument(Str("The Pragmatic Leader"), Str("high"), Advice, Advice), ""),
      JsonText("~~~\n", PersonaDocument(Str("The Careful Planner"), Str("extreme"), Advice, Advice),
               "~~~"),
      JsonText("", PersonaDocument(Str("The Pragmatic Leader"), Str("high"), Advice, Undefined), ""),
      JsonText("", PersonaDocument(Str("The Pragmatic Leader"), Str("high"), Arr(<<>>), Advice), ""),
      JsonText("", PersonaDocument(Str(""), Str("high"), Advice, Advice), ""),
      JsonText("", NotJson, "") }

(***************************************************************************)
(* Families of documents: a complete document with one field removed or    *)
(* replaced                                                                *)
(***************************************************************************)
\* the object o without its property f
Without(o, f) == Obj([k \in (DOMAIN o.props) \ { f } |-> o.props[k]])

\* the value at a path of one or two property names
At(doc, path) ==
    IF Len(path) = 1 THEN Get(doc, path[1]) ELSE Get(Get(doc, path[1]), path[2])

\* the document with the value at the path replaced, or removed when the
\* value is undefined
Patched(doc, path, value) ==
    IF Len(path) = 1
    THEN IF value = Undefined THEN Without(doc, path[1]) ELSE SetProp(doc, path[1], value)
    ELSE SetProp(doc, path[1],
                 IF value = Undefined THEN Without(Get(doc, path[1]), path[2])
                 ELSE SetProp(Get(doc, path[1]), path[2], value))

\* what a field may hold instead of its value: nothing, or a value of a kind
\* JSON has
Replacements ==
    { Undefined, Null, Str(""), Num(0), Num(7), Bool(FALSE), Arr(<<>>), Obj(<<>>) }

ContextLeaves ==
    { <<"professionalContext", "role">>, <<"professionalContext", "industry">>,
      <<"professionalContext", "seniority">> }
StyleLeaves == { <<"communicationStyle", "tone">>, <<"communicationStyle", "verbosity">> }

PersonaLeaves ==
    { <<"personaName">>, <<"summary">> } \cup ContextLeaves \cup StyleLeaves
        \cup { <<"designBiases", "visualStyle">>, <<"designBiases", "uxPriority">> }
PersonaLists ==
    { <<"contentBiases", "respondsTo">>, <<"contentBiases", "avoids">>, <<"briefConflicts">>,
      <<"designGuidance", "do">>, <<"designGuidance", "avoid">> }
PersonaSections ==
    { <<"professionalContext">>, <<"communicationStyle">>, <<"designBiases">>,
      <<"contentBiases">>, <<"designGuidance">> }

AnalysisLeaves ==
    ContextLeaves \cup StyleLeaves
        \cup { <<"inferredDesignPreferences", "visualStyle">>,
               <<"inferredDesignPreferences", "uxPriority">> }
AnalysisLists ==
    { <<"inferredContentPreferences", "respondsTo">>,
      <<"inferredContentPreferences", "avoids">> }
AnalysisSections ==
    { <<"professionalContext">>, <<"communicationStyle">>, <<"inferredDesignPreferences">>,
      <<"inferredContentPreferences">> }

Verbosities == { Str("low"), Str("medium"), Str("high"), Str("extreme"), Str("HIGH") }

CompletePersona(verbosity) ==
    PersonaDocument(Str("The Pragmatic Leader"), verbosity, Advice, Advice)

PersonaDocuments ==
    { CompletePersona(v) : v \in Verbosities }
        \cup { Patched(CompletePersona(Str("extreme")), path, value) :
                 path \in PersonaLeaves \cup PersonaLists \cup PersonaSections,
                 value \in Replacements }
        \cup { Null, Str("persona"), Arr(<<>>), NotJson }

AnalysisDocuments ==
    { AnalysisDocument(v) : v \in Verbosities }
        \cup { Patched(AnalysisDocument(Str("extreme")), path, value) :
                 path \in AnalysisLeaves \cup AnalysisLists \cup AnalysisSections,
                 value \in Replacements \cup { Str("formal") } }
        \cup { Null, Str("analysis"), Arr(<<>>), NotJson }

\* the characters a response may put around its document
Wrappings ==
    { <<"", "">>, <<"~~~json\n", "\n~~~\n">>, <<" ~~~\n", "~~~ ">>,
      <<"Here is the JSON:\n~~~json\n", "\n~~~">> }

PersonaInputs ==
    { JsonText("", document, "") : document \in PersonaDocuments }
        \cup { JsonText(w[1], CompletePersona(Str("extreme")), w[2]) : w \in Wrappings }

AnalysisInputs ==
    { JsonText("", document, "") : document \in AnalysisDocuments }
        \cup { JsonText(w[1], AnalysisDocument(Str("extreme")), w[2]) : w \in Wrappings }

(***************************************************************************)
(* Specifications of the two parsers on their own                          *)
(***************************************************************************)
ParserIdle ==
    /\ message = "" /\ classified = FALSE /\ verdict = FALSE
    /\ RetryOff
    /\ plan = <<>>
    /\ ServiceOff
    /\ ClockOff
    /\ stage = "Idle"
    /\ analysis = [t |-> "undefined"]
    /\ persona = [t |-> "undefined"]
    /\ audioScript = ""
    /\ audioUrl = ""
    /\ result = NoOutcome
    /\ upstream = NoResponse
    /\ losers = {}
    /\ other = NoInvocation
    /\ turn = 1
    /\ FrontEndOff
    /\ parseResult = NoOutcome

ParserFrame ==
    UNCHANGED <<clsVars, retryVars, plan, pairVars, uiVars, svcVars, pipeVars, losers, clockVars, responseText>>

InitParsePersona == ParserIdle /\ responseText \in PersonaInputs

ParsePersonaResult ==
    /\ parseResult.kind = "none"
    /\ parseResult' = parsePersonaResult(responseText)
    /\ ParserFrame

SpecParsePersona == InitParsePersona /\ [][ParsePersonaResult]_vars

InitParseProfile == ParserIdle /\ responseText \in AnalysisInputs

ParseProfileAnalysis ==
    /\ parseResult.kind = "none"
    /\ parseResult' = parseProfileAnalysis(responseText)
    /\ ParserFrame

SpecParseProfile == InitParseProfile /\ [][ParseProfileAnalysis]_vars

\* the parser has returned or thrown
Parsed == parseResult.kind # "none"
Accepted == parseResult.kind = "value"
Rejected == parseResult.kind = "error"

AvoidPath == <<"designGuidance", "avoid">>
DoPath == <<"designGuidance", "do">>
VerbosityPath == <<"communicationStyle", "verbosity">>

\* a persona document that is complete but for designGuidance.avoid
AvoidMissing == Patched(CompletePersona(Str("extreme")), AvoidPath, Undefined)
\* a persona document that is complete but for an empty designGuidance.do
DoEmpty == Patched(CompletePersona(Str("extreme")), DoPath, Arr(<<>>))

C14_WitnessDoEmpty == Rejected /\ responseText.doc = DoEmpty

\* C15: an accepted persona document is returned with every field as
\* parsed, but for communicationStyle.verbosity, which is 'medium' when the
\* document's is outside low, medium, high and is as parsed otherwise.
C15_OnlyVerbosityRepaired ==
    Accepted =>
        LET given == responseText.doc
            record == parseResult.value
            style == Get(given, "communicationStyle")
            repaired == Get(record, "communicationStyle")
        IN  /\ record.t = "object" /\ repaired.t = "object"
            /\ DOMAIN record.props = DOMAIN given.props
            /\ \A k \in DOMAIN given.props \ { "communicationStyle" } :
                  record.props[k] = given.props[k]
            /\ DOMAIN repaired.props = DOMAIN style.props
            /\ \A k \in DOMAIN style.props \ { "verbosity" } :
                  repaired.props[k] = style.props[k]
            /\ Get(repaired, "verbosity") =
                  IF Get(style, "verbosity") \in { Str("low"), Str("medium"), Str("high") }
                  THEN Get(style, "verbosity") ELSE Str("medium")

\* the complete document with verbosity 'extreme' was accepted as 'medium'
C15_Witness ==
    /\ Accepted
    /\ responseText.doc = CompletePersona(Str("extreme"))
    /\ At(parseResult.value, VerbosityPath) = Str("medium")

NonEmptyList(x) == x.t = "array" /\ Len(x.items) > 0

\* C16 as stated: an accepted persona record has its five lists non-empty
\* and its leaf fields present and non-empty.
C16_ListsAndLeavesNonEmpty ==
    Accepted =>
        /\ \A path \in PersonaLists : NonEmptyList(At(parseResult.value, path))
        /\ \A path \in PersonaLeaves : Truthy(At(parseResult.value, path))

\* C16 amended: a persona document is accepted exactly when it is JSON,
\* its leaf fields are present and truthy, designGuidance.do and
\* designGuidance.avoid are non-empty lists, and contentBiases.respondsTo,
\* contentBiases.avoids and briefConflicts are lists, empty or not.
C16_AcceptedRecords ==
    Parsed =>
        (Accepted <=>
            /\ JsonParse(responseText).ok
            /\ \A path \in PersonaLeaves : Truthy(At(responseText.doc, path))
            /\ \A path \in PersonaLists : At(responseText.doc, path).t = "array"
            /\ NonEmptyList(At(responseText.doc, DoPath))
            /\ NonEmptyList(At(responseText.doc, AvoidPath)))

\* a record with an empty briefConflicts list was accepted
C16_Witness ==
    /\ Accepted
    /\ At(parseResult.value, <<"briefConflicts">>) = Arr(<<>>)
    /\ \A path \in PersonaLeaves : Truthy(At(parseResult.value, path))

\* a document with an empty designGuidance.avoid was rejected
C16_WitnessRejected ==
    /\ Rejected
    /\ At(responseText.doc, AvoidPath) = Arr(<<>>)

\* C17: an analysis document in which a required field (a leaf field or one
\* of the two lists) is missing or empty is rejected with an error naming
\* that field, and no accepted analysis record lacks one.
C17_IncompleteAnalysisRejected ==
    (Parsed /\ JsonParse(responseText).ok /\ responseText.doc.t = "object") =>
        /\ \A path \in AnalysisLeaves :
              ~Truthy(At(responseText.doc, path)) =>
                  (Rejected /\ Includes(parseResult.message, path[Len(path)]))
        /\ \A path \in AnalysisLists :
              ~NonEmptyList(At(responseText.doc, path)) =>
                  (Rejected /\ Includes(parseResult.message, path[Len(path)]))

\* C17 without the naming of the field: no accepted analysis record lacks a
\* leaf field
C17_AcceptedAnalysisComplete ==
    Accepted => \A path \in AnalysisLeaves : Truthy(At(parseResult.value, path))

(***************************************************************************)
(* GeminiService.analyzeArticleText and GeminiService.generatePersona      *)
(***************************************************************************)
AnalysisOperation == "Article text analysis"
PersonaOperation == "Persona generation"
AudioOperation == "Audio synthesis"

AnalysisCatchPrefix == "Failed to analyze article text: "
PersonaCatchPrefix == "Failed to generate persona: "

\* how analyzeArticleText settles once its request is answered by resp
AnalyzeArticleTextSettles(resp) ==
    IF resp.kind = "text"
    THEN LET parsed == parseProfileAnalysis(resp.body)
         IN  IF parsed.kind = "value" THEN parsed
             ELSE Error(GeminiCatch(AnalysisCatchPrefix, parsed.message))
    ELSE Error(GeminiCatch(AnalysisCatchPrefix, ThrownMessage(resp)))

\* how GeminiService.generatePersona settles once its request is answered
GeneratePersonaSettles(resp) ==
    IF resp.kind = "text"
    THEN LET parsed == parsePersonaResult(resp.body)
         IN  IF parsed.kind = "value" THEN parsed
             ELSE Error(GeminiCatch(PersonaCatchPrefix, parsed.message))
    ELSE Error(GeminiCatch(PersonaCatchPrefix, ThrownMessage(resp)))

\* answers to the requests of one run of the pipeline
AnalysisResponses ==
    { TextResponse(JsonText("~~~json\n", AnalysisDocument(Str("extreme")), "\n~~~\n")),
      TextResponse(JsonText("", NotJson, "")),
      FailureResponse("quota exceeded"),
      FailureResponse("quota exceeded after timeout"),
      TimerResponse }

PersonaResponses ==
    { TextResponse(JsonText("", PersonaDocument(Str("The Pragmatic Leader"), Str("high"),
                                                Advice, Advice), "")),
      TextResponse(JsonText("", PersonaDocument(Str("The Pragmatic Leader"), Str("high"),
                                                Advice, Undefined), "")),
      FailureResponse("API key not valid"),
      TimerResponse }

PipelineScriptResponses ==
    { TextResponse(Words(120, 5)), TextResponse(Words(150, 5)), TextResponse(" \n "),
      TextResponse(Words(90, 5)),
      FailureResponse("Rate limit reached"),
      TimerResponse }

(***************************************************************************)
(* ElevenLabsService.synthesizeSpeech (the estimated duration of its       *)
(* result is read by nobody and left out)                                  *)
(***************************************************************************)
\* the audio stream: a sequence of chunks of bytes
StreamResponse(chunks) == [kind |-> "stream", body |-> chunks, message |-> ""]

\* Buffer.concat
RECURSIVE ConcatChunks(_)
ConcatChunks(chunks) ==
    IF Len(chunks) = 0 THEN <<>> ELSE Head(chunks) \o ConcatChunks(Tail(chunks))

\* mutant: the script is not validated
ScriptIsEmptyUnchecked(s) == FALSE

\* !script || script.trim().length === 0
ScriptIsEmpty(s) == Len(s) = 0 \/ Len(Trim(s)) = 0

EmptyScriptMessage == "Script cannot be empty"

\* how synthesizeSpeech settles once the stream has been read or has failed
SynthesizeSpeechSettles(resp) ==
    IF resp.kind = "stream"
    THEN Value([audioBuffer |-> ConcatChunks(resp.body)])
    ELSE Error(ElevenLabsCatch(resp.message))

\* the last one is a stream that ends without a chunk
AudioStreams == { << <<255, 251, 144>> >>, << <<73, 68>>, <<51, 4>> >>, << >> }

AudioUpstreamErrors ==
    { "connect ETIMEDOUT", "Unusual activity detected", "quota exceeded after timeout" }

AudioResponses ==
    { StreamResponse(c) : c \in AudioStreams }
        \cup { FailureResponse(m) : m \in AudioUpstreamErrors }

(***************************************************************************)
(* Buffer.prototype.toString('base64')                                     *)
(***************************************************************************)
Base64Alphabet == "ABCDEFGHIJKLMNOPQRSTUVWXYZabcdefghijklmnopqrstuvwxyz0123456789+/"

Base64Char(n) == CharAt(Base64Alphabet, n + 1)

RECURSIVE Base64(_)
Base64(b) ==
    IF Len(b) = 0 THEN ""
    ELSE IF Len(b) = 1
    THEN Base64Char(b[1] \div 4) \o Base64Char((b[1] % 4) * 16) \o "=="
    ELSE IF Len(b) = 2
    THEN Base64Char(b[1] \div 4) \o Base64Char((b[1] % 4) * 16 + b[2] \div 16)
             \o Base64Char((b[2] % 16) * 4) \o "="
    ELSE Base64Char(b[1] \div 4) \o Base64Char((b[1] % 4) * 16 + b[2] \div 16)
             \o Base64Char((b[2] % 16) * 4 + b[3] \div 64) \o Base64Char(b[3] % 64)
             \o Base64(SubSeq(b, 4, Len(b)))

\* `data:audio/mpeg;base64,${base64Audio}`
DataUrl(audioBuffer) == "data:audio/mpeg;base64," \o Base64(audioBuffer)

(***************************************************************************)
(* PersonaPipelineService.generatePersona                                  *)
(***************************************************************************)
FatalStages == { "Analyzing", "PersonaGenerating", "ScriptGenerating" }
ActiveStages == FatalStages \cup { "Synthesizing" }

StageOperation ==
    [ Analyzing |-> AnalysisOperation, PersonaGenerating |-> PersonaOperation,
      ScriptGenerating |-> ScriptOperation, Synthesizing |-> AudioOperation ]

\* mutant: steps 2 and 3 are written in the other order
NextStageScriptFirst ==
    [ Analyzing |-> "ScriptGenerating", ScriptGenerating |-> "PersonaGenerating",
      PersonaGenerating |-> "Synthesizing" ]

NextStage ==
    [ Analyzing |-> "PersonaGenerating", PersonaGenerating |-> "ScriptGenerating",
      ScriptGenerating |-> "Synthesizing" ]

PipelineResult ==
    [persona |-> persona', audioUrl |-> audioUrl', audioScript |-> audioScript',
     processingTime |-> now - startTime]

Init ==
    /\ message = "" /\ classified = FALSE /\ verdict = FALSE
    /\ RetryOff
    /\ plan = <<>>
    /\ ServiceOff
    /\ PipelineOff

\* generatePersona(articleText, designBrief) is called: step 1 enters
\* retryWithBackoff
GeneratePersonaCalled ==
    /\ stage = "Idle"
    /\ stage' = "Analyzing"
    /\ EnterRetry(AnalysisOperation, DefaultMaxRetries)
    /\ startTime' = now
    /\ UNCHANGED now
    /\ UNCHANGED <<analysis, persona, audioScript, audioUrl, result, upstream, losers>>
    /\ UNCHANGED <<calls, waits, clsVars, plan, pairVars, uiVars, parseVars, svcVars>>

\* the article text generatePersona is called with
articleText == "Ten years of shipping design systems."

\* mutant: speech synthesis is given the draft before it was cut
StageArgumentUncutScript ==
    [ n \in { AnalysisOperation, PersonaOperation, ScriptOperation, AudioOperation } |->
        IF n = AnalysisOperation THEN articleText
        ELSE IF n = PersonaOperation THEN analysis
        ELSE IF n = ScriptOperation THEN persona
        ELSE script ]

\* the argument of the closure of each step, read when the closure runs
StageArgument ==
    [ n \in { AnalysisOperation, PersonaOperation, ScriptOperation, AudioOperation } |->
        IF n = AnalysisOperation THEN articleText
        ELSE IF n = PersonaOperation THEN analysis
        ELSE IF n = ScriptOperation THEN persona
        ELSE audioScript ]

\* retryWithBackoff invokes the stage operation, which runs up to its first await
StageInvoked ==
    /\ stage \in ActiveStages
    /\ RetryInvokes
    /\ upstream' = NoResponse
    /\ UNCHANGED losers
    /\ IF operationName = ScriptOperation
       THEN GenerateAudioScriptStarts /\ UNCHANGED fnOutcome
       ELSE /\ sent' = [operation |-> operationName,
                        input |-> StageArgument[operationName],
                        wordCountGuidance |-> ""]
            /\ IF operationName = AudioOperation /\ ScriptIsEmpty(audioScript)
               THEN /\ svc' = "done"
                    /\ fnOutcome' = Error(ElevenLabsCatch(EmptyScriptMessage))
                    /\ UNCHANGED <<script, wordCount, requests>>
               ELSE /\ svc' = "request"
                    /\ requests' = [requests EXCEPT ![operationName] = @ + 1]
                    /\ UNCHANGED <<script, wordCount, fnOutcome>>
    /\ UNCHANGED <<operationName, maxRetries, attempt, lastError, settled, outcomes, waits>>
    /\ UNCHANGED <<stage, analysis, persona, audioScript, audioUrl, result>>
    /\ UNCHANGED <<clsVars, plan, pairVars, uiVars, parseVars, clockVars>>

ServiceFrame ==
    /\ UNCHANGED <<rpc, operationName, maxRetries, attempt, lastError, settled, outcomes,
                   calls, waits>>
    /\ UNCHANGED <<stage, analysis, persona, audioScript, audioUrl, result>>
    /\ UNCHANGED <<clsVars, plan, pairVars, uiVars, parseVars, clockVars>>

AnalysisAnswered ==
    /\ rpc = "await" /\ operationName = AnalysisOperation /\ svc = "request"
    /\ \E resp \in AnalysisResponses :
        /\ upstream' = resp
        /\ RaceDecided(resp)
        /\ fnOutcome' = AnalyzeArticleTextSettles(resp)
    /\ svc' = "done"
    /\ UNCHANGED <<script, wordCount, requests, sent>>
    /\ ServiceFrame

PersonaAnswered ==
    /\ rpc = "await" /\ operationName = PersonaOperation /\ svc = "request"
    /\ \E resp \in PersonaResponses :
        /\ upstream' = resp
        /\ RaceDecided(resp)
        /\ fnOutcome' = GeneratePersonaSettles(resp)
    /\ svc' = "done"
    /\ UNCHANGED <<script, wordCount, requests, sent>>
    /\ ServiceFrame

ScriptRequestAnswered ==
    /\ rpc = "await" /\ operationName = ScriptOperation
    /\ \E resp \in PipelineScriptResponses :
        /\ upstream' = resp
        /\ RaceDecided(resp)
        /\ GenerateAudioScriptResumes(resp)
    /\ ServiceFrame

AudioAnswered ==
    /\ rpc = "await" /\ operationName = AudioOperation /\ svc = "request"
    /\ \E resp \in AudioResponses :
        /\ upstream' = resp
        /\ fnOutcome' = SynthesizeSpeechSettles(resp)
    /\ UNCHANGED losers
    /\ svc' = "done"
    /\ UNCHANGED <<script, wordCount, requests, sent>>
    /\ ServiceFrame

\* retryWithBackoff resumes with the settled stage operation
StageAwaited ==
    /\ stage \in ActiveStages
    /\ svc = "done"
    /\ RetryResumes
    /\ svc' = "off"
    /\ UNCHANGED <<script, wordCount, requests, sent>>
    /\ UNCHANGED <<pipeVars, losers, clsVars, plan, pairVars, uiVars, parseVars, clockVars>>

\* the timer of sleep(delay) fires no earlier than delay ms after it was set
StageBackoffElapsed ==
    /\ stage \in ActiveStages
    /\ RetryWakes
    /\ LET slept == waits[operationName]
           delay == slept[Len(slept)]
       IN  now' = IF now + delay > MaxClock THEN MaxClock ELSE now + delay
    /\ UNCHANGED startTime
    /\ UNCHANGED <<pipeVars, losers, clsVars, plan, pairVars, uiVars, parseVars, svcVars>>

\* a millisecond passes while generatePersona is in progress
ClockTicks ==
    /\ stage \in ActiveStages
    /\ now < MaxClock
    /\ now' = now + 1
    /\ UNCHANGED startTime
    /\ UNCHANGED <<pipeVars, losers, clsVars, retryVars, plan, pairVars, uiVars, parseVars, svcVars>>

\* generatePersona resumes after step 1, 2 or 3 returned: the value is bound
\* and the next step enters retryWithBackoff
StageReturned ==
    /\ stage \in FatalStages
    /\ rpc = "returned"
    /\ stage' = NextStage[stage]
    /\ analysis' = IF stage = "Analyzing" THEN settled.value ELSE analysis
    /\ persona' = IF stage = "PersonaGenerating" THEN settled.value ELSE persona
    /\ audioScript' = IF stage = "ScriptGenerating" THEN settled.value ELSE audioScript
    /\ EnterRetry(StageOperation[NextStage[stage]], DefaultMaxRetries)
    /\ UNCHANGED <<audioUrl, result, upstream, losers>>
    /\ UNCHANGED <<calls, waits, clsVars, plan, pairVars, uiVars, parseVars, clockVars, svcVars>>

FrameLeft ==
    /\ rpc' = "off"
    /\ UNCHANGED <<operationName, maxRetries, attempt, lastError, fnOutcome, settled,
                   outcomes, calls, waits>>
    /\ UNCHANGED <<upstream, losers, clsVars, plan, pairVars, uiVars, parseVars, clockVars, svcVars>>

\* mutant: a failure of step 1, 2 or 3 is swallowed like one of step 4
StageThrewSwallowed ==
    /\ stage \in FatalStages
    /\ rpc = "thrown"
    /\ stage' = NextStage[stage]
    /\ EnterRetry(StageOperation[NextStage[stage]], DefaultMaxRetries)
    /\ UNCHANGED <<analysis, persona, audioScript, audioUrl, result, upstream, losers>>
    /\ UNCHANGED <<calls, waits, clsVars, plan, pairVars, uiVars, parseVars, clockVars, svcVars>>

\* generatePersona resumes after step 1, 2 or 3 threw: the outer catch
StageThrew ==
    /\ stage \in FatalStages
    /\ rpc = "thrown"
    /\ stage' = "Failed"
    /\ result' = Error("Persona generation failed: " \o settled.message)
    /\ UNCHANGED <<analysis, persona, audioScript, audioUrl>>
    /\ FrameLeft

\* mutant: the data URL is built but audioUrl is not assigned
SynthesisReturnedUrlUnassigned ==
    /\ stage = "Synthesizing"
    /\ rpc = "returned"
    /\ audioUrl' = ""
    /\ stage' = "Complete"
    /\ UNCHANGED <<analysis, persona, audioScript>>
    /\ result' = Value(PipelineResult)
    /\ FrameLeft

\* mutant: an empty buffer gives no data URL
SynthesisReturnedEmptyBufferNoUrl ==
    /\ stage = "Synthesizing"
    /\ rpc = "returned"
    /\ audioUrl' = IF Len(settled.value.audioBuffer) = 0 THEN ""
                   ELSE DataUrl(settled.value.audioBuffer)
    /\ stage' = "Complete"
    /\ UNCHANGED <<analysis, persona, audioScript>>
    /\ result' = Value(PipelineResult)
    /\ FrameLeft

\* generatePersona resumes after step 4 returned
SynthesisReturned ==
    /\ stage = "Synthesizing"
    /\ rpc = "returned"
    /\ audioUrl' = DataUrl(settled.value.audioBuffer)
    /\ stage' = "Complete"
    /\ UNCHANGED <<analysis, persona, audioScript>>
    /\ result' = Value(PipelineResult)
    /\ FrameLeft

\* mutant: the failure of step 4 reaches the outer catch
SynthesisThrewFatal ==
    /\ stage = "Synthesizing"
    /\ rpc = "thrown"
    /\ stage' = "Failed"
    /\ result' = Error("Persona generation failed: " \o settled.message)
    /\ UNCHANGED <<analysis, persona, audioScript, audioUrl>>
    /\ FrameLeft

\* mutant: the inner catch takes over as soon as an attempt has failed,
\* while the executor is waiting to retry
SynthesisThrewBeforeRetry ==
    /\ stage = "Synthesizing"
    /\ rpc \in { "thrown", "sleep" }
    /\ audioUrl' = ""
    /\ stage' = "Complete"
    /\ UNCHANGED <<analysis, persona, audioScript>>
    /\ result' = Value(PipelineResult)
    /\ FrameLeft

\* generatePersona resumes after step 4 threw: the inner catch
SynthesisThrew ==
    /\ stage = "Synthesizing"
    /\ rpc = "thrown"
    /\ audioUrl' = ""
    /\ stage' = "Complete"
    /\ UNCHANGED <<analysis, persona, audioScript>>
    /\ result' = Value(PipelineResult)
    /\ FrameLeft

\* mutant: a timer that fires late rejects whatever is awaited now
LoserSettlesOverwrites ==
    /\ \E k \in losers :
        /\ losers' = losers \ { k }
        /\ fnOutcome' = IF k = "timer"
                        THEN Error(GeminiCatch("", GeminiTimeoutMessage))
                        ELSE fnOutcome
    /\ UNCHANGED <<rpc, operationName, maxRetries, attempt, lastError, settled, outcomes,
                   calls, waits>>
    /\ UNCHANGED <<clsVars, plan, pairVars, uiVars, parseVars, clockVars, svcVars, pipeVars>>

\* the loser of a race settles: a response arrives for a request whose timer
\* fired, or the timer fires of a request that was answered; the promise
\* Promise.race returned is settled already and does not change
LoserSettles ==
    /\ \E k \in losers : losers' = losers \ { k }
    /\ UNCHANGED <<clsVars, retryVars, plan, pairVars, uiVars, parseVars, clockVars, svcVars, pipeVars>>

Next ==
    \/ GeneratePersonaCalled
    \/ StageInvoked
    \/ AnalysisAnswered
    \/ PersonaAnswered
    \/ ScriptRequestAnswered
    \/ AudioAnswered
    \/ StageAwaited
    \/ StageBackoffElapsed
    \/ StageReturned
    \/ StageThrew
    \/ SynthesisReturned
    \/ SynthesisThrew
    \/ ClockTicks
    \/ LoserSettles

Spec == Init /\ [][Next]_vars

\* the 30 s timer of Promise.race settles a pending request of one of the
\* three GeminiService methods
GeminiTimerFires ==
    /\ rpc = "await"
    /\ operationName \in { AnalysisOperation, PersonaOperation, ScriptOperation }
    /\ svc \in { "request", "regen" }
    /\ upstream' = TimerResponse
    /\ RaceDecided(TimerResponse)
    /\ IF operationName = ScriptOperation
       THEN GenerateAudioScriptResumes(TimerResponse)
       ELSE /\ svc' = "done"
            /\ fnOutcome' = IF operationName = AnalysisOperation
                            THEN AnalyzeArticleTextSettles(TimerResponse)
                            ELSE GeneratePersonaSettles(TimerResponse)
            /\ UNCHANGED <<script, wordCount, requests, sent>>
    /\ ServiceFrame

\* the steps the event loop runs by itself: continuations of settled
\* promises and the timers of sleep
PipelineSteps ==
    \/ StageInvoked
    \/ StageAwaited
    \/ StageBackoffElapsed
    \/ StageReturned
    \/ StageThrew
    \/ SynthesisReturned
    \/ SynthesisThrew

\* timers fire and continuations run; a remote service may never answer
SpecLive == Spec /\ WF_vars(PipelineSteps) /\ WF_vars(GeminiTimerFires)

(***************************************************************************)
(* Two invocations of generatePersona on one service instance              *)
(*                                                                         *)
(* The services have no mutable field: the attempt and lastError of        *)
(* retryWithBackoff, the locals of the service methods and those of        *)
(* generatePersona belong to one call.  The event loop runs one            *)
(* continuation at a time and may run one of the other invocation next.    *)
(* The variables hold the locals of the invocation that is running and     *)
(* `other` those of the one that is not; Date.now() is shared.             *)
(***************************************************************************)
\* the locals (and the history) of the invocation that is running
Locals ==
    [ rpc |-> rpc, operationName |-> operationName, maxRetries |-> maxRetries,
      attempt |-> attempt, lastError |-> lastError, fnOutcome |-> fnOutcome,
      settled |-> settled, outcomes |-> outcomes, calls |-> calls, waits |-> waits,
      plan |-> plan, svc |-> svc, script |-> script, wordCount |-> wordCount,
      requests |-> requests, sent |-> sent, stage |-> stage, analysis |-> analysis,
      persona |-> persona, audioScript |-> audioScript, audioUrl |-> audioUrl,
      result |-> result, upstream |-> upstream, losers |-> losers,
      startTime |-> startTime ]

\* an invocation that has not been called yet, whose requests are going to
\* be answered as p says
NotCalled(p) ==
    [ rpc |-> "off", operationName |-> "", maxRetries |-> 0, attempt |-> 0,
      lastError |-> "", fnOutcome |-> NoOutcome, settled |-> NoOutcome,
      outcomes |-> <<>>, calls |-> [n \in OperationNames |-> 0],
      waits |-> [n \in OperationNames |-> <<>>], plan |-> p, svc |-> "off",
      script |-> "", wordCount |-> 0, requests |-> [n \in OperationNames |-> 0],
      sent |-> NoCall, stage |-> "Idle", analysis |-> [t |-> "undefined"],
      persona |-> [t |-> "undefined"], audioScript |-> "", audioUrl |-> "",
      result |-> NoOutcome, upstream |-> NoResponse, losers |-> {}, startTime |-> 0 ]

PlannedAnalysis ==
    TextResponse(JsonText("~~~json\n", AnalysisDocument(Str("extreme")), "\n~~~\n"))
PlannedPersona ==
    TextResponse(JsonText("", PersonaDocument(Str("The Pragmatic Leader"), Str("high"),
                                              Advice, Advice), ""))

\* every request answered well at once
PlanSmooth ==
    [ name |-> "smooth",
      answers |-> (AnalysisOperation :> << PlannedAnalysis >>)
                   @@ (PersonaOperation :> << PlannedPersona >>)
                   @@ (ScriptOperation :> << TextResponse(Words(120, 5)) >>)
                   @@ (AudioOperation :> << StreamResponse(<< <<255, 251, 144>> >>) >>) ]

\* the analysis times out once, the first draft has no word and is
\* regenerated, speech synthesis fails on every attempt
PlanRetried ==
    [ name |-> "retried",
      answers |-> (AnalysisOperation :> << TimerResponse, PlannedAnalysis >>)
                   @@ (PersonaOperation :> << PlannedPersona >>)
                   @@ (ScriptOperation :> << TextResponse(" \n "),
                                             TextResponse(Words(120, 5)) >>)
                   @@ (AudioOperation :> << FailureResponse("connect ETIMEDOUT") >>) ]

\* persona generation is refused
PlanRefused ==
    [ name |-> "refused",
      answers |-> (AnalysisOperation :> << PlannedAnalysis >>)
                   @@ (PersonaOperation :> << FailureResponse("API key not valid") >>)
                   @@ (ScriptOperation :> << TextResponse(Words(120, 5)) >>)
                   @@ (AudioOperation :> << StreamResponse(<< <<255, 251, 144>> >>) >>) ]

PairPlans == { PlanSmooth, PlanRetried, PlanRefused }

\* the answer to the latest request of the invocation that is running (the
\* last answer of the plan is repeated)
Planned ==
    LET q == plan.answers[operationName]
        k == requests[operationName]
    IN  q[IF k < Len(q) THEN k ELSE Len(q)]

SameResponse(a, b) == a.kind = b.kind /\ a.message = b.message /\ a.body = b.body

InitPair ==
    /\ message = "" /\ classified = FALSE /\ verdict = FALSE
    /\ RetryOff
    /\ ServiceOff
    /\ PipelineIdle
    /\ ParseOff
    /\ ClockOff
    /\ plan \in PairPlans
    /\ \E p \in PairPlans : other = NotCalled(p)
    /\ turn = 1
    /\ FrontEndOff

\* the latest request of the invocation that is running is answered, or its
\* timer fires
PlannedAnswerArrives ==
    /\ \/ AnalysisAnswered
       \/ PersonaAnswered
       \/ ScriptRequestAnswered
       \/ AudioAnswered
    /\ SameResponse(upstream', Planned)

\* mutant: the loop variable is a field of the service
ResumedAttemptShared(invocation) == attempt

\* the loop variable of the invocation that is resumed: `let attempt` is
\* a local of its call of retryWithBackoff
ResumedAttempt(invocation) == invocation.attempt

\* mutant: sleep() blocks the thread
MayYieldBlockingSleep == rpc # "sleep"

\* the invocation that is running is suspended at an await (every state of
\* the model is one: an action runs a continuation up to its next await)
MayYield == TRUE

\* the event loop goes on with a continuation of the other invocation
Switch ==
    /\ MayYield
    /\ other.stage \notin { "Complete", "Failed" }
    /\ turn' = 3 - turn
    /\ other' = Locals
    /\ rpc' = other.rpc
    /\ operationName' = other.operationName
    /\ maxRetries' = other.maxRetries
    /\ attempt' = ResumedAttempt(other)
    /\ lastError' = other.lastError
    /\ fnOutcome' = other.fnOutcome
    /\ settled' = other.settled
    /\ outcomes' = other.outcomes
    /\ calls' = other.calls
    /\ waits' = other.waits
    /\ plan' = other.plan
    /\ svc' = other.svc
    /\ script' = other.script
    /\ wordCount' = other.wordCount
    /\ requests' = other.requests
    /\ sent' = other.sent
    /\ stage' = other.stage
    /\ analysis' = other.analysis
    /\ persona' = other.persona
    /\ audioScript' = other.audioScript
    /\ audioUrl' = other.audioUrl
    /\ result' = other.result
    /\ upstream' = other.upstream
    /\ losers' = other.losers
    /\ startTime' = other.startTime
    /\ UNCHANGED <<clsVars, parseVars, now, uiVars>>

\* a step of the invocation that is running
InvocationStep ==
    \/ GeneratePersonaCalled
    \/ StageInvoked
    \/ PlannedAnswerArrives
    \/ StageAwaited
    \/ StageBackoffElapsed
    \/ StageReturned
    \/ StageThrew
    \/ SynthesisReturned
    \/ SynthesisThrew

NextPair ==
    \/ GeneratePersonaCalled
    \/ StageInvoked
    \/ PlannedAnswerArrives
    \/ StageAwaited
    \/ StageBackoffElapsed
    \/ StageReturned
    \/ StageThrew
    \/ SynthesisReturned
    \/ SynthesisThrew
    \/ Switch

SpecPair == InitPair /\ [][NextPair]_vars

\* the operations of the stages after the stage of operation op
LaterOperations(op) ==
    IF op = AnalysisOperation THEN { PersonaOperation, ScriptOperation, AudioOperation }
    ELSE IF op = PersonaOperation THEN { ScriptOperation, AudioOperation }
    ELSE IF op = ScriptOperation THEN { AudioOperation }
    ELSE {}

\* C1: when the first three stages succeeded and retryWithBackoff of the
\* speech synthesis ended by throwing (every attempt failed, retryable or
\* not), generatePersona does not raise: it completes with a result holding
\* the persona and the script generated by stages 2 and 3 and audioUrl "".
C1_SynthesisFailureDegrades ==
    /\ stage = "Synthesizing" =>
          /\ analysis.t = "object" /\ persona.t = "object"
          /\ result.kind = "none"
    /\ (operationName = AudioOperation /\ rpc = "off") =>
          /\ stage = "Complete"
          /\ result.kind = "value"
          /\ persona.t = "object"
          /\ result.value.persona = persona
          /\ result.value.audioScript = audioScript
          /\ settled.kind = "error" => result.value.audioUrl = ""
          /\ settled.kind = "error" =>
                \A i \in 1..Len(outcomes) : outcomes[i].kind = "error"

\* all three attempts of the synthesis failed with a retryable error
C1_Witness ==
    /\ stage = "Complete"
    /\ settled.kind = "error"
    /\ calls[AudioOperation] = 3
    /\ result.value.audioUrl = ""
    /\ Len(result.value.audioScript) > 0

\* the synthesis failed once with an error that is not retried
C1_WitnessNotRetried ==
    /\ stage = "Complete"
    /\ settled.kind = "error"
    /\ calls[AudioOperation] = 1
    /\ requests[AudioOperation] = 1
    /\ result.value.audioUrl = ""

\* C2: when retryWithBackoff of analysis, persona generation or script
\* generation ends by throwing, generatePersona raises (it settles with an
\* error and no result object) and no operation of a later stage is invoked,
\* then or ever after; in particular speech synthesis is never called.
C2_EarlyFailureIsFatal ==
    /\ [](stage = "Failed" =>
            /\ result.kind = "error"
            /\ rpc = "off"
            /\ operationName \in { AnalysisOperation, PersonaOperation, ScriptOperation }
            /\ \A op \in LaterOperations(operationName) :
                  calls[op] = 0 /\ requests[op] = 0
            /\ calls[AudioOperation] = 0 /\ requests[AudioOperation] = 0)
    /\ []((stage \in FatalStages /\ rpc = "thrown") =>
            \A op \in LaterOperations(operationName) : calls[op] = 0 /\ requests[op] = 0)
    /\ [][(stage \in FatalStages /\ rpc = "thrown") =>
              (stage' = "Failed" \/ UNCHANGED <<pipeVars, retryVars, svcVars>>)]_vars
    /\ [][stage = "Failed" => (stage' = "Failed" /\ calls' = calls /\ requests' = requests
                                  /\ result' = result)]_vars

\* persona generation failed for good after the analysis had succeeded
C2_Witness ==
    /\ stage = "Failed"
    /\ operationName = PersonaOperation
    /\ calls[AnalysisOperation] >= 1
    /\ result.kind = "error"

StageOperations == { AnalysisOperation, PersonaOperation, ScriptOperation, AudioOperation }

\* every stage operation was invoked once, and the last one succeeded: the
\* four upstream calls succeeded at the first attempt
AllSucceededAtOnce ==
    /\ stage = "Complete"
    /\ settled.kind = "value"
    /\ \A op \in StageOperations : calls[op] = 1

\* within the current retryWithBackoff, the first invocation succeeded
FirstAttemptSucceeded == Len(outcomes) >= 1 /\ outcomes[1].kind = "value"

\* C18 without the elapsed time: a stage whose first invocation succeeds is
\* invoked once and waits for no backoff, and when that is so of all four
\* the result has a non-empty persona name and a non-empty audio reference.
FirstAttemptRun ==
    /\ (stage \in ActiveStages /\ FirstAttemptSucceeded) =>
          /\ calls[operationName] = 1
          /\ waits[operationName] = <<>>
          /\ rpc = "returned"
    /\ AllSucceededAtOnce =>
          /\ \A op \in StageOperations : waits[op] = <<>>
          /\ result.kind = "value"
          /\ LET name == Get(result.value.persona, "personaName")
             IN  name.t = "string" /\ Len(name.v) > 0
          /\ Len(result.value.audioUrl) > 0
          /\ result.value.audioUrl = audioUrl
          /\ StartsWith(audioUrl, "data:audio/mpeg;base64,")

\* C18 as stated: when all four upstream calls succeed at the first attempt,
\* each stage operation is invoked once without backoff wait and the result
\* has a non-empty persona name, a non-empty audio reference and a
\* processingTime greater than 0.
C18_FirstAttemptRunTakesTime ==
    /\ FirstAttemptRun
    /\ AllSucceededAtOnce => result.value.processingTime > 0

\* C18 amended: the same, with a processingTime of 0 or more.
C18_FirstAttemptRunResult ==
    /\ FirstAttemptRun
    /\ AllSucceededAtOnce =>
          /\ result.value.processingTime >= 0
          /\ result.value.processingTime = now - startTime

\* the four calls succeeded at once within one millisecond
C18_Witness == AllSucceededAtOnce /\ result.value.processingTime = 0

\* the four calls succeeded at once and took time
C18_WitnessLater == AllSucceededAtOnce /\ result.value.processingTime > 0

StageOrder ==
    [ Idle |-> 0, Analyzing |-> 1, PersonaGenerating |-> 2, ScriptGenerating |-> 3,
      Synthesizing |-> 4, Complete |-> 5, Failed |-> 5 ]

\* an invocation of a stage operation is in progress
InvocationInProgress == rpc = "await" \/ svc # "off"

\* C19: the stages run in the order analysis, persona generation, script
\* generation, speech synthesis: an operation is invoked only in its own
\* stage, which is entered only after the stage before returned a value; no
\* stage is entered again once left; and an invocation starts only when no
\* other is in progress.
C19_StagesInOrder ==
    /\ [](/\ stage \in ActiveStages => operationName = StageOperation[stage]
          /\ \A op \in LaterOperations(operationName) : calls[op] = 0
          /\ calls[PersonaOperation] > 0 =>
                (analysis.t = "object" /\ calls[AnalysisOperation] > 0)
          /\ calls[ScriptOperation] > 0 =>
                (persona.t = "object" /\ calls[PersonaOperation] > 0)
          /\ calls[AudioOperation] > 0 =>
                (stage \in { "Synthesizing", "Complete" } /\ calls[ScriptOperation] > 0)
          /\ InvocationInProgress =>
                (stage \in ActiveStages /\ calls[operationName] > 0))
    /\ [][stage' # stage =>
            /\ StageOrder[stage'] > StageOrder[stage]
            /\ stage' \in ActiveStages => StageOrder[stage'] = StageOrder[stage] + 1
            /\ (stage' \in ActiveStages /\ stage # "Idle") =>
                  (rpc = "returned" /\ settled.kind = "value"
                      /\ outcomes[Len(outcomes)].kind = "value")]_vars
    /\ [][calls' # calls =>
            /\ ~InvocationInProgress
            /\ calls' = [calls EXCEPT ![StageOperation[stage]] = @ + 1]]_vars

\* all four stages ran, persona generation at its third attempt
C19_Witness ==
    /\ stage = "Complete"
    /\ calls[PersonaOperation] = 3
    /\ calls[AudioOperation] >= 1

\* C20: every generatePersona invocation ends, with a result or an error,
\* even when a remote service never answers.
C20_EveryInvocationSettles ==
    (stage # "Idle") ~> (stage \in { "Complete", "Failed" })

\* C20 for the three stages of GeminiService: each of them ends
C20_GeminiStagesEnd ==
    /\ (stage = "Analyzing") ~> (stage # "Analyzing")
    /\ (stage = "PersonaGenerating") ~> (stage # "PersonaGenerating")
    /\ (stage = "ScriptGenerating") ~> (stage # "ScriptGenerating")

\* the messages generatePersona raises when the stage of operation op fails
\* for good, over the answers its requests can get
StageFailureMessages(op) ==
    LET failures ==
            IF op = AnalysisOperation
            THEN { AnalyzeArticleTextSettles(resp) : resp \in AnalysisResponses }
            ELSE IF op = PersonaOperation
            THEN { GeneratePersonaSettles(resp) : resp \in PersonaResponses }
            ELSE { Error(GeminiCatch(ScriptCatchPrefix, ThrownMessage(resp))) :
                       resp \in { r \in PipelineScriptResponses : r.kind # "text" } }
    IN  { "Persona generation failed: " \o f.message : f \in { g \in failures : g.kind = "error" } }

\* C21: the error generatePersona raises when stage 1, 2 or 3 fails carries
\* the elapsed time so far and identifies the stage that failed: its message
\* holds the elapsed milliseconds and is not a message the failure of
\* another stage raises.
C21_FailureCarriesTimeAndStage ==
    stage = "Failed" =>
        /\ Includes(result.message, ToString(now - startTime))
        /\ \A op \in { AnalysisOperation, PersonaOperation, ScriptOperation } \ { operationName } :
              result.message \notin StageFailureMessages(op)

DataUrlPrefix == "data:audio/mpeg;base64,"

C26_WitnessFailed ==
    /\ stage = "Complete"
    /\ settled.kind = "error"
    /\ result.value.audioUrl = ""

\* witness of C26: four bytes in two chunks
C26_WitnessBytes ==
    /\ stage = "Complete"
    /\ settled.kind = "value"
    /\ audioUrl = "data:audio/mpeg;base64,SUQzBA=="

\* the attempt that made retryWithBackoff return is the last one, and every
\* attempt before it failed
ReturnedLastAttempt ==
    /\ settled.kind = "value"
    /\ Len(outcomes) >= 1
    /\ settled = outcomes[Len(outcomes)]
    /\ \A i \in 1..(Len(outcomes) - 1) : outcomes[i].kind = "error"

\* C30: each stage consumes exactly the value the successful attempt of the
\* stage before it returned: persona generation is called with the analysis
\* stage 1 returned, script generation with the persona of the result, and
\* speech synthesis, at each attempt, with the audioScript of the result; a
\* bound value never changes and no value of a failed attempt is bound.
C30_DataFlowsForward ==
    /\ [](/\ sent.operation = AnalysisOperation => sent.input = articleText
          /\ sent.operation = PersonaOperation => sent.input = analysis
          /\ sent.operation = ScriptOperation => sent.input = persona
          /\ sent.operation = AudioOperation => sent.input = audioScript
          /\ rpc = "await" => sent.operation = operationName
          /\ stage = "Complete" =>
                /\ result.value.persona = persona
                /\ result.value.audioScript = audioScript
                /\ sent.operation = AudioOperation
                /\ sent.input = result.value.audioScript)
    /\ [][(stage = "Analyzing" /\ stage' = "PersonaGenerating") =>
             (ReturnedLastAttempt /\ analysis' = settled.value)]_vars
    /\ [][(stage = "PersonaGenerating" /\ stage' = "ScriptGenerating") =>
             (ReturnedLastAttempt /\ persona' = settled.value)]_vars
    /\ [][(stage = "ScriptGenerating" /\ stage' = "Synthesizing") =>
             (ReturnedLastAttempt /\ audioScript' = settled.value)]_vars
    /\ [][stage # "Analyzing" => analysis' = analysis]_vars
    /\ [][stage # "PersonaGenerating" => persona' = persona]_vars
    /\ [][stage # "ScriptGenerating" => audioScript' = audioScript]_vars

\* witness of C30: persona generation and speech synthesis were both
\* attempted more than once, and the script is a draft that was cut
C30_Witness ==
    /\ stage = "Complete"
    /\ calls[PersonaOperation] >= 2
    /\ calls[AudioOperation] >= 2
    /\ Len(result.value.audioScript) = 800
    /\ sent.input = result.value.audioScript

\* the two invocations ended alike; processingTime is read off the shared
\* clock and is left out
SameOutcome(a, b) ==
    /\ a.result.kind = b.result.kind
    /\ IF a.result.kind = "value"
       THEN /\ a.result.value.persona = b.result.value.persona
            /\ a.result.value.audioScript = b.result.value.audioScript
            /\ a.result.value.audioUrl = b.result.value.audioUrl
       ELSE a.result.message = b.result.message
    /\ a.calls = b.calls
    /\ a.waits = b.waits
    /\ a.requests = b.requests

\* inside retryWithBackoff, the loop variable of an invocation counts its own
\* failed attempts of the current operation, and its delays are 1 s, 2 s, ...
AttemptIsOwn(invocation) ==
    invocation.rpc \in { "call", "await", "sleep" } =>
        LET slept == invocation.waits[invocation.operationName]
        IN  /\ Len(slept) = invocation.attempt
                               + (IF invocation.rpc = "sleep" THEN 1 ELSE 0)
            /\ \A k \in 1..Len(slept) : slept[k] = BackoffDelay(k - 1)
            /\ invocation.calls[invocation.operationName]
                   = invocation.attempt + (IF invocation.rpc = "call" THEN 0 ELSE 1)

\* C24: two invocations of generatePersona in progress are independent,
\* however their continuations are interleaved: a step of one leaves every
\* local of the other as it was, and the other is resumed with the very
\* locals it was suspended with; two invocations whose requests are answered
\* alike end alike, after the same attempts, delays and requests; the attempt
\* counter and the delays of each follow its own failures only; while one
\* sleeps between two attempts the other can be run and can take a step
C24_InvocationsIndependent ==
    /\ [][\/ turn' = turn /\ other' = other
          \/ turn' # turn /\ other' = Locals /\ Locals' = other]_vars
    /\ []((/\ stage \in { "Complete", "Failed" }
           /\ other.stage \in { "Complete", "Failed" }
           /\ plan.name = other.plan.name) => SameOutcome(Locals, other))
    /\ [](AttemptIsOwn(Locals) /\ AttemptIsOwn(other))
    /\ []((rpc = "sleep" /\ other.stage \notin { "Complete", "Failed" })
             => ENABLED Switch)
    /\ []((other.rpc = "sleep" /\ stage \notin { "Complete", "Failed" })
             => ENABLED InvocationStep)

\* witness of C24: one invocation ran from its call to its result while the
\* other was waiting to retry its first request
C24_Witness ==
    /\ turn = 2
    /\ stage = "Complete"
    /\ result.value.audioUrl # ""
    /\ other.rpc = "sleep"
    /\ other.stage = "Analyzing"
    /\ other.waits[AnalysisOperation] = << 1000 >>

\* witness of C24: two invocations that both retried, regenerated and lost
\* their audio have ended
C24_WitnessSamePlan ==
    /\ stage = "Complete"
    /\ other.stage = "Complete"
    /\ plan.name = "retried"
    /\ other.plan.name = "retried"
    /\ Len(waits[AudioOperation]) = DefaultMaxRetries
    /\ requests[ScriptOperation] = 2

\* C31: step 4 goes through retryWithBackoff before the inner catch applies:
\* while the executor is at work no result exists; when the last attempt of
\* speech synthesis succeeded, whatever failed before it, the result carries
\* a non-empty audio URL; the audio URL of a result is empty only when the
\* executor threw, that is after a non-retryable failure or after 3 failures
C31_DegradeOnlyAfterGivingUp ==
    /\ stage = "Synthesizing" => (result = NoOutcome /\ audioUrl = "")
    /\ stage = "Complete" =>
        /\ result.value.audioUrl = audioUrl
        /\ operationName = AudioOperation
        /\ Len(outcomes) = calls[AudioOperation]
        /\ calls[AudioOperation] \in 1..(DefaultMaxRetries + 1)
        /\ \A k \in 1..(Len(outcomes) - 1) :
               outcomes[k].kind = "error" /\ isTransientError(outcomes[k].message)
        /\ settled = outcomes[Len(outcomes)]
        /\ settled.kind = "value" => audioUrl # ""
        /\ audioUrl = "" =>
               /\ settled.kind = "error"
               /\ \/ ~isTransientError(settled.message)
                  \/ calls[AudioOperation] = DefaultMaxRetries + 1

\* witness of C31: speech synthesis failed twice with a retryable error and
\* succeeded at the third attempt
C31_Witness ==
    /\ stage = "Complete"
    /\ calls[AudioOperation] = 3
    /\ waits[AudioOperation] = << 1000, 2000 >>
    /\ outcomes[2].kind = "error"
    /\ audioUrl # ""

\* witness of C31: three retryable failures, then the empty audio URL
C31_WitnessGivenUp ==
    /\ stage = "Complete"
    /\ calls[AudioOperation] = 3
    /\ isTransientError(settled.message)
    /\ audioUrl = ""

\* witness of C31: one non-retryable failure, then the empty audio URL
C31_WitnessNonRetryable ==
    /\ stage = "Complete"
    /\ calls[AudioOperation] = 1
    /\ requests[AudioOperation] = 1
    /\ audioUrl = ""

\* C33: over one invocation of generatePersona the remote requests are
\* bounded whatever the services answer: every operation is invoked at most
\* 3 times; analysis, persona generation and speech synthesis issue at most
\* one request per invocation, hence at most 3; generateAudioScript issues a
\* draft request and at most one regeneration request per invocation, hence
\* at most 6
C33_RequestsBounded ==
    /\ \A op \in { AnalysisOperation, PersonaOperation, ScriptOperation, AudioOperation } :
           calls[op] <= DefaultMaxRetries + 1
    /\ \A op \in { AnalysisOperation, PersonaOperation, AudioOperation } :
           requests[op] <= calls[op]
    /\ requests[ScriptOperation] <= 2 * calls[ScriptOperation]
    /\ requests[AnalysisOperation] <= 3
    /\ requests[PersonaOperation] <= 3
    /\ requests[ScriptOperation] <= 6
    /\ requests[AudioOperation] <= 3

\* witness of C33: a run that ended after the largest number of requests of
\* every kind
C33_Witness ==
    /\ stage = "Complete"
    /\ requests[AnalysisOperation] = 3
    /\ requests[PersonaOperation] = 3
    /\ requests[ScriptOperation] = 6
    /\ requests[AudioOperation] = 3

\* C34: when the regeneration request of generateAudioScript ends with its
\* timer or with an error, the invocation throws that error as its catch
\* block words it, and not the first draft; an invocation of
\* generateAudioScript, the first or a retry, starts with a draft request
\* for the bound persona without word count guidance and with no script and
\* no word count kept from an invocation before it
C34_FailedRegenerationFailsTheInvocation ==
    /\ [][(svc = "regen" /\ svc' = "done" /\ upstream'.kind # "text") =>
             /\ fnOutcome'.kind = "error"
             /\ fnOutcome'.message
                    = GeminiCatch(ScriptCatchPrefix, ThrownMessage(upstream'))
             /\ requests' = requests]_vars
    /\ [][(operationName = ScriptOperation /\ rpc = "call" /\ rpc' = "await") =>
             /\ svc' = "request"
             /\ script' = ""
             /\ wordCount' = 0
             /\ sent' = [operation |-> ScriptOperation, input |-> persona,
                         wordCountGuidance |-> ""]
             /\ requests'[ScriptOperation] = requests[ScriptOperation] + 1]_vars
    /\ [](svc = "request" /\ operationName = ScriptOperation
             => script = "" /\ wordCount = 0)

\* witness of C34: the regeneration request of the first invocation timed out
\* and the second invocation awaits its draft
C34_Witness ==
    /\ operationName = ScriptOperation
    /\ calls[ScriptOperation] = 2
    /\ requests[ScriptOperation] = 3
    /\ outcomes = << Error("Gemini API timeout. Please try again.") >>
    /\ svc = "request"
    /\ rpc = "await"

\* witness of C34: the regeneration request failed with an error that is
\* not retried, and the run failed with it
C34_WitnessFailed ==
    /\ stage = "Failed"
    /\ requests[ScriptOperation] = 2
    /\ calls[ScriptOperation] = 1
    /\ upstream.kind = "error"
    /\ script # ""

\* a script without a character that is not white space
BlankScript(s) == \A i \in 1..Len(s) : IsSpace(s, i)

\* C35: a result with a non-empty audio URL has a script that is neither
\* empty nor white space only; when the script bound by step 3 is empty,
\* synthesizeSpeech is invoked exactly once, issues no remote request, throws
\* 'Script cannot be empty', which is not retried, and generatePersona
\* returns a result with that script and an empty audio URL
C35_NoAudioForAnEmptyScript ==
    /\ (stage = "Complete" /\ result.value.audioUrl # "")
           => ~BlankScript(result.value.audioScript)
    /\ (stage \in { "Synthesizing", "Complete" } /\ BlankScript(audioScript)) =>
           /\ calls[AudioOperation] <= 1
           /\ requests[AudioOperation] = 0
           /\ waits[AudioOperation] = << >>
           /\ rpc # "sleep"
           /\ rpc # "returned"
           /\ rpc = "thrown" => settled = Error(EmptyScriptMessage)
           /\ stage = "Complete" =>
                  /\ calls[AudioOperation] = 1
                  /\ settled = Error(EmptyScriptMessage)
                  /\ result.kind = "value"
                  /\ result.value.audioUrl = ""
                  /\ result.value.audioScript = audioScript

\* witness of C35: the draft and its regeneration had no word, the run ended
\* with the empty script and without audio
C35_Witness ==
    /\ stage = "Complete"
    /\ audioScript = ""
    /\ requests[ScriptOperation] = 2
    /\ calls[AudioOperation] = 1
    /\ result.value.audioUrl = ""

\* witness of C35: a result with audio
C35_WitnessAudio ==
    /\ stage = "Complete"
    /\ result.value.audioUrl # ""
    /\ Len(result.value.audioScript) > 0

GeminiOperations == { AnalysisOperation, PersonaOperation, ScriptOperation }

\* a step in which the race of a pending text-generation request is decided
RaceIsDecided ==
    /\ rpc = "await"
    /\ operationName \in GeminiOperations
    /\ svc \in { "request", "regen" }
    /\ svc' # svc

\* C25: a text-generation request is decided by the first of the remote
\* call and the 30 s timer to settle: when the timer is first the call fails
\* with the timeout error and the request stays pending, when the request
\* is answered first the timer stays pending; the loser settling later
\* changes neither the outcome delivered nor anything else of the pipeline.
C25_FirstSettlementDecides ==
    /\ [][RaceIsDecided =>
            IF upstream'.kind = "timer"
            THEN /\ svc' = "done"
                 /\ fnOutcome' = Error("Gemini API timeout. Please try again.")
                 /\ losers' = losers \cup { "remote" }
            ELSE /\ losers' = losers \cup { "timer" }
                 /\ upstream'.kind = "text" =>
                       \/ svc' = "regen" /\ fnOutcome' = fnOutcome
                       \/ svc' = "done" /\ fnOutcome'.kind \in { "value", "error" }
                                        /\ ~Includes(fnOutcome'.message, "timeout")]_vars
    /\ [][(losers' # losers /\ ~RaceIsDecided) =>
            /\ losers' \subseteq losers
            /\ UNCHANGED <<clsVars, retryVars, plan, pairVars, uiVars, parseVars, clockVars, svcVars, pipeVars>>]_vars
    /\ [][(stage \in { "Complete", "Failed" }) => (result' = result)]_vars

\* witness of C25: the analysis request was cut off by its timer and retried,
\* the run completed, and since then the response to the request that was
\* cut off has arrived and all the timers have fired
C25_Witness ==
    /\ stage = "Complete"
    /\ Len(waits[AnalysisOperation]) >= 1
    /\ outcomes # <<>>
    /\ losers = {}

\* witness of C25: a request cut off by its timer is still pending while the
\* next attempt is awaited
C25_WitnessInFlight ==
    /\ stage = "PersonaGenerating"
    /\ rpc = "await" /\ svc = "request"
    /\ attempt = 1
    /\ "remote" \in losers

\* C36 as claimed: at most one text-generation request is outstanding at any
\* moment: while a request is awaited no request of an earlier attempt or
\* stage is still in flight.
C36_OneRequestOutstanding ==
    (rpc = "await" /\ operationName \in GeminiOperations /\ svc \in { "request", "regen" })
        => "remote" \notin losers

\* C36: at most one text-generation request is awaited at any moment: a
\* request is issued only when none is awaited or in the step in which the
\* awaited draft request is answered with a text; a request whose timer
\* fired first is not cancelled, it stays in flight, unawaited, and it is the
\* only kind of request that is in flight without being awaited
C36_OneRequestAwaited ==
    /\ [][(\E op \in GeminiOperations : requests'[op] # requests[op]) =>
             \/ svc = "off" /\ rpc = "call"
             \/ svc = "request" /\ svc' = "regen" /\ upstream'.kind = "text"]_vars
    /\ [][(RaceIsDecided /\ upstream'.kind = "timer") => "remote" \in losers']_vars
    /\ [][("remote" \notin losers /\ "remote" \in losers') =>
             (RaceIsDecided /\ upstream'.kind = "timer")]_vars

\* witness of C36: the analysis request of the first attempt was cut off by
\* its timer and is still in flight while the request of the second attempt
\* is awaited
C36_Witness ==
    /\ stage = "Analyzing"
    /\ rpc = "await" /\ svc = "request"
    /\ requests[AnalysisOperation] = 2
    /\ outcomes = << Error("Gemini API timeout. Please try again.") >>
    /\ "remote" \in losers

\* witness of C36: a request of the analysis stage is still in flight while
\* the regeneration request of the script stage is awaited
C36_WitnessLaterStage ==
    /\ stage = "ScriptGenerating"
    /\ rpc = "await" /\ svc = "regen"
    /\ requests[PersonaOperation] = 1
    /\ requests[ScriptOperation] = 2
    /\ "remote" \in losers

\* the markers of an authentication, quota or rate-limit condition
PermanentMarkers == { "rate limit", "quota", "authentication", "api key" }

\* the answer the stage's last request got is a failure whose original
\* message carries a marker of a permanent condition
PermanentUpstreamFailure ==
    /\ upstream.kind = "error"
    /\ MarkersIn(PermanentMarkers, upstream.message) # {}

\* C8: when the upstream call of a stage fails with an authentication, quota
\* or rate-limit condition (whatever else its message says), the stage is
\* not retried: retryWithBackoff does not go to its backoff wait.
C8_PermanentNeverRetried ==
    PermanentUpstreamFailure => rpc # "sleep"

\* C8 on the speech synthesis alone
C8_PermanentSynthesisNeverRetried ==
    (PermanentUpstreamFailure /\ operationName = AudioOperation) => rpc # "sleep"

\* C8 for upstream messages that do not mention a timeout
C8_PermanentWithoutTimeoutNeverRetried ==
    (PermanentUpstreamFailure /\ ~Includes(upstream.message, "timeout")) => rpc # "sleep"

(***************************************************************************)
(* Error messages the classifier is exercised on: one to MaxFragments      *)
(* fragments joined by single spaces.  The fragments are the markers of    *)
(* both lists, differently cased spellings of some, and neutral words.     *)
(***************************************************************************)
Fragments ==
    transientPatterns \cup nonRetryablePatterns \cup
    { "Timeout", "ETIMEDOUT", "API key", "Rate Limit", "Quota", "Invalid",
      "server error", "request failed" }

RECURSIVE JoinFragments(_)
JoinFragments(fs) ==
    IF Len(fs) = 0 THEN ""
    ELSE IF Len(fs) = 1 THEN fs[1]
    ELSE fs[1] \o " " \o JoinFragments(Tail(fs))

ErrorMessages ==
    { JoinFragments(fs) : fs \in UNION { [1..n -> Fragments] : n \in 1..MaxFragments } }

(***************************************************************************)
(* Specification of the classifier on its own                              *)
(***************************************************************************)
InitClassifier ==
    /\ message \in ErrorMessages
    /\ classified = FALSE
    /\ verdict = FALSE
    /\ RetryOff
    /\ plan = <<>>
    /\ ServiceOff
    /\ PipelineOff

Classify ==
    /\ ~classified
    /\ classified' = TRUE
    /\ verdict' = isTransientError(message)
    /\ UNCHANGED message
    /\ UNCHANGED <<retryVars, plan, pairVars, uiVars, parseVars, clockVars, svcVars, pipeVars, losers>>

NextClassifier == Classify

SpecClassifier == InitClassifier /\ [][NextClassifier]_vars

\* C6: a message that contains, in any letter case, at least one
\* non-retryable marker is classified non-retryable (isTransientError
\* returns false), also when it contains transient markers as well.
C6_NonRetryablePrecedence ==
    (classified /\ MarkersIn(nonRetryablePatterns, message) # {})
        => verdict = FALSE

\* witness of C6: a classified message holding both a non-retryable marker
\* (spelled with capitals) and a transient marker
C6_Witness ==
    /\ classified
    /\ verdict = FALSE
    /\ message = "API key timeout"

\* C7: isTransientError returns true when the message contains a transient
\* marker and no non-retryable marker, and false when it contains no
\* transient marker at all (markers matched ignoring case).
C7_TransientVerdict ==
    classified =>
        /\ (MarkersIn(transientPatterns, message) # {}
              /\ MarkersIn(nonRetryablePatterns, message) = {}) => verdict = TRUE
        /\ MarkersIn(transientPatterns, message) = {} => verdict = FALSE

\* witness of C7: a message with only transient markers classified
\* retry-worthy
C7_Witness ==
    /\ classified
    /\ verdict = TRUE
    /\ message = "connection timeout"

\* second witness material of C7: a message without any marker is rejected
C7_WitnessNeutral ==
    /\ classified
    /\ verdict = FALSE
    /\ message = "server error"

(***************************************************************************)
(* The front end: PersonaGeneratorPage (handleSubmit and its progress      *)
(* interval), the InputForm that calls it and the AudioBriefing the page   *)
(* mounts for a result.                                                    *)
(***************************************************************************)

\* the calls of handleSubmit looked at
MaxSubmits == 2

\* article texts and design briefs that pass InputForm's validation (the
\* form calls onSubmit with nothing else); the names stand for the texts
SubmittedArticles == { "article one", "article two" }
SubmittedBriefs == { "brief one", "brief two" }

\* a state string | null holding a string
StateString(s) == [t |-> "string", v |-> s]
StateNull == [t |-> "null"]

\* responses generatePersona of the api client resolves with: a result with
\* audio and the degraded result, whose audioUrl is empty
ApiResponses ==
    { [t |-> "response", persona |-> "persona", audioUrl |-> url, audioScript |-> "Hello there."] :
        url \in { "", "data:audio/mpeg;base64,AAAA" } }

\* what generatePersona of the api client rejects with: an ApiError with a
\* code and a message, another Error, or a value that is no Error
ApiErrorCodes ==
    { "NETWORK_ERROR", "RATE_LIMIT_EXCEEDED", "SERVICE_UNAVAILABLE",
      "SERVICE_AUTH_FAILED", "VALIDATION_ERROR", "INTERNAL_ERROR" }
ApiRejections ==
    { [t |-> "ApiError", code |-> c, message |-> "Failed to generate persona."] :
        c \in ApiErrorCodes }
    \cup { [t |-> "Error", code |-> "", message |-> m] : m \in { "", "Failed to fetch" } }
    \cup { [t |-> "thrown", code |-> "", message |-> ""] }

\* mutant: the updater goes on from 'synthesizing' to 'complete'
ProgressUpdaterCompletes(prev) ==
    CASE prev.currentStep = "scraping" -> [prev EXCEPT !.currentStep = "analyzing"]
      [] prev.currentStep = "analyzing" -> [prev EXCEPT !.currentStep = "generating"]
      [] prev.currentStep = "generating" -> [prev EXCEPT !.currentStep = "synthesizing"]
      [] prev.currentStep = "synthesizing" -> [prev EXCEPT !.currentStep = "complete"]
      [] OTHER -> prev

\* the updater the progress interval hands to setState
ProgressUpdater(prev) ==
    CASE prev.currentStep = "scraping" -> [prev EXCEPT !.currentStep = "analyzing"]
      [] prev.currentStep = "analyzing" -> [prev EXCEPT !.currentStep = "generating"]
      [] prev.currentStep = "generating" -> [prev EXCEPT !.currentStep = "synthesizing"]
      [] OTHER -> prev

\* the catch block of handleSubmit: the message shown for what was thrown
ErrorMessageFor(error) ==
    IF error.t = "ApiError"
    THEN CASE error.code = "NETWORK_ERROR" ->
                "Unable to connect to the server. Please check your internet connection and try again."
           [] error.code = "RATE_LIMIT_EXCEEDED" ->
                "Rate limit exceeded. Please wait a few minutes and try again."
           [] error.code \in { "SERVICE_UNAVAILABLE", "SERVICE_AUTH_FAILED" } ->
                "AI service temporarily unavailable. Please try again in a few moments."
           [] error.code = "VALIDATION_ERROR" ->
                "Please ensure your article text is at least 500 characters and your design brief is at least 10 characters."
           [] OTHER -> error.message
    ELSE IF error.t = "Error"
    THEN error.message
    ELSE "An unexpected error occurred. Please try again."

\* the page renders InputForm, and InputForm's submit button is enabled
SubmitButtonEnabled ==
    /\ page.state.currentStep = "idle" \/ page.state.isLoading
    /\ ~page.state.isLoading

\* the page renders the results, the "Generate Another" button and the
\* AudioBriefing among them
ResultsRendered ==
    /\ page.state.currentStep = "complete"
    /\ page.state.persona.t # "null"

\* events the audio element of an AudioBriefing may go on to fire: any of
\* the two for an audio reference, at most 'error' for the empty one
ElementEvents(url) ==
    IF url = ""
    THEN { {}, { "error" } }
    ELSE SUBSET { "loadedmetadata", "error" }

\* mutant: the component starts with isLoading false
AudioBriefingLoaded(url, transcript, fires) ==
    [ mounted |-> TRUE, audioUrl |-> url, transcript |-> transcript,
      fires |-> fires, handled |-> "mount", isPlaying |-> FALSE,
      isLoading |-> FALSE, showTranscript |-> FALSE, error |-> StateNull ]

\* AudioBriefing as mounted: its props, the useState initial values, and the
\* events its audio element is going to fire
AudioBriefing(url, transcript, fires) ==
    [ mounted |-> TRUE, audioUrl |-> url, transcript |-> transcript,
      fires |-> fires, handled |-> "mount", isPlaying |-> FALSE,
      isLoading |-> TRUE, showTranscript |-> FALSE, error |-> StateNull ]

\* the block {!isLoading && !error && (...)}: progress bar, controls and the
\* transcript toggle
ControlsRendered ==
    /\ player.mounted
    /\ ~player.isLoading
    /\ player.error = StateNull

\* {showTranscript && (...)} inside that block: the transcript text
TranscriptRendered == ControlsRendered /\ player.showTranscript

FrontEndFrame ==
    UNCHANGED <<clsVars, retryVars, svcVars, pipeVars, parseVars, clockVars,
                plan, losers, pairVars>>

\* the page is mounted
InitFrontEnd ==
    /\ message = "" /\ classified = FALSE /\ verdict = FALSE
    /\ RetryOff
    /\ plan = <<>>
    /\ ServiceOff
    /\ PipelineOff

\* InputForm calls handleSubmit(articleText, designBrief): the state is
\* reset, the progress interval is set and generatePersona is awaited
HandleSubmit ==
    /\ SubmitButtonEnabled
    /\ page.call < MaxSubmits
    /\ \E article \in SubmittedArticles, brief \in SubmittedBriefs :
        page' = [ page EXCEPT
            !.state = [ articleText |-> article, designBrief |-> brief,
                        isLoading |-> TRUE, currentStep |-> "scraping",
                        persona |-> StateNull, error |-> StateNull ],
            !.pc = "await",
            !.call = page.call + 1,
            !.intervals = page.intervals \cup { page.call + 1 },
            !.handled = "submit",
            !.submitted = << article, brief >>,
            !.settledAs = StateNull ]
    /\ UNCHANGED player
    /\ FrontEndFrame

\* an interval that is set fires, 3000 ms after it was set or fired last
ProgressIntervalFires ==
    /\ \E id \in page.intervals :
        page' = [ page EXCEPT !.state = ProgressUpdater(page.state),
                              !.handled = "interval" ]
    /\ UNCHANGED player
    /\ FrontEndFrame

\* generatePersona resolved: clearInterval, the result is stored and the
\* page renders the results with an AudioBriefing
GeneratePersonaResolved ==
    /\ page.pc = "await"
    /\ \E response \in ApiResponses :
        /\ page' = [ page EXCEPT
              !.state = [ articleText |-> page.submitted[1],
                          designBrief |-> page.submitted[2],
                          isLoading |-> FALSE, currentStep |-> "complete",
                          persona |-> response, error |-> StateNull ],
              !.pc = "idle",
              !.intervals = page.intervals \ { page.call },
              !.handled = "resolved",
              !.settledAs = StateString("resolved") ]
        /\ \E fires \in ElementEvents(response.audioUrl) :
              player' = AudioBriefing(response.audioUrl, response.audioScript, fires)
    /\ FrontEndFrame

\* generatePersona rejected: the catch block
GeneratePersonaRejected ==
    /\ page.pc = "await"
    /\ \E error \in ApiRejections :
        page' = [ page EXCEPT
            !.state = [ page.state EXCEPT
                          !.articleText = page.submitted[1],
                          !.designBrief = page.submitted[2],
                          !.isLoading = FALSE,
                          !.currentStep = "idle",
                          !.error = StateString(ErrorMessageFor(error)) ],
            !.pc = "idle",
            !.intervals = page.intervals \ { page.call },
            !.handled = "rejected",
            !.settledAs = StateString("rejected") ]
    /\ UNCHANGED player
    /\ FrontEndFrame

\* the "Generate Another" button: the state of a fresh page; the results and
\* their AudioBriefing are not rendered any more
GenerateAnother ==
    /\ ResultsRendered
    /\ page' = [ page EXCEPT !.state = InitialPageState, !.handled = "another" ]
    /\ player' = NoPlayer
    /\ FrontEndFrame

\* the audio element fires 'loadedmetadata': handleLoadedMetadata, and the
\* play() of autoPlay, which the browser allows or blocks
HandleLoadedMetadata ==
    /\ player.mounted
    /\ "loadedmetadata" \in player.fires
    /\ \E allowed \in BOOLEAN :
        player' = [ player EXCEPT !.isLoading = FALSE, !.error = StateNull,
                                  !.isPlaying = allowed \/ player.isPlaying,
                                  !.handled = "loadedmetadata" ]
    /\ UNCHANGED page
    /\ FrontEndFrame

\* the audio element fires 'error': handleError
HandleError ==
    /\ player.mounted
    /\ "error" \in player.fires
    /\ player' = [ player EXCEPT
          !.isLoading = FALSE,
          !.error = StateString("Failed to load audio. Please try again."),
          !.handled = "error" ]
    /\ UNCHANGED page
    /\ FrontEndFrame

\* the play/pause button, rendered with the controls
HandlePlayPause ==
    /\ ControlsRendered
    /\ player' = [ player EXCEPT !.isPlaying = ~player.isPlaying,
                                 !.handled = "playpause" ]
    /\ UNCHANGED page
    /\ FrontEndFrame

\* the transcript toggle, rendered with the controls
ToggleTranscript ==
    /\ ControlsRendered
    /\ player' = [ player EXCEPT !.showTranscript = ~player.showTranscript,
                                 !.handled = "toggle" ]
    /\ UNCHANGED page
    /\ FrontEndFrame

NextFrontEnd ==
    \/ HandleSubmit
    \/ ProgressIntervalFires
    \/ GeneratePersonaResolved
    \/ GeneratePersonaRejected
    \/ GenerateAnother
    \/ HandleLoadedMetadata
    \/ HandleError
    \/ HandlePlayPause
    \/ ToggleTranscript

SpecFrontEnd == InitFrontEnd /\ [][NextFrontEnd]_vars

\* the steps the progress interval takes the displayed step through
StepChain ==
    { << "scraping", "analyzing" >>, << "analyzing", "generating" >>,
      << "generating", "synthesizing" >> }

\* C37: after a submit the displayed step advances only scraping ->
\* analyzing -> generating -> synthesizing, by the 3-second interval, which
\* never shows 'complete'; once generatePersona settles no interval is left
\* set and the state changes again only by a new submit or "Generate
\* Another"; the state a resolved call leaves is {complete, persona, no
\* error, not loading} and the state a rejected call leaves is {idle, no
\* persona, an error, not loading, the submitted article text and brief}.
C37_ProgressThenSettled ==
    /\ [][(page'.handled = "interval" /\ page'.state # page.state) =>
            /\ page.pc = "await"
            /\ << page.state.currentStep, page'.state.currentStep >> \in StepChain
            /\ page'.state =
                 [page.state EXCEPT !.currentStep = page'.state.currentStep]]_vars
    /\ [][(page.pc = "await" /\ page'.pc = "await" /\ page'.state # page.state) =>
            page'.handled = "interval"]_vars
    /\ [](page.pc = "idle" => page.intervals = {})
    /\ [][(page.pc = "idle" /\ page'.state # page.state) =>
            page'.handled \in { "submit", "another" }]_vars
    /\ []((page.settledAs = StateString("resolved") /\ page.handled # "another") =>
            /\ page.state.currentStep = "complete"
            /\ page.state.persona \in ApiResponses
            /\ page.state.error = StateNull
            /\ page.state.isLoading = FALSE)
    /\ [](page.settledAs = StateString("rejected") =>
            /\ page.state.currentStep = "idle"
            /\ page.state.persona = StateNull
            /\ page.state.error # StateNull
            /\ page.state.isLoading = FALSE
            /\ page.state.articleText = page.submitted[1]
            /\ page.state.designBrief = page.submitted[2])

\* witness of C37: the second call of handleSubmit was rejected after the
\* first one; the page shows the form with what was submitted and the
\* message of the error code
C37_Witness ==
    /\ page.call = 2
    /\ page.handled = "rejected"
    /\ page.submitted = << "article two", "brief two" >>
    /\ page.state.articleText = "article two"
    /\ page.state.currentStep = "idle"
    /\ page.state.error =
         StateString("Rate limit exceeded. Please wait a few minutes and try again.")

\* witness of C37: the interval has taken the displayed step to the last one
\* while the call is awaited
C37_WitnessLastStep ==
    /\ page.pc = "await"
    /\ page.handled = "interval"
    /\ page.state.currentStep = "synthesizing"
    /\ page.intervals = { 1 }

\* witness of C37: a resolved call
C37_WitnessResolved ==
    /\ page.handled = "resolved"
    /\ page.state.currentStep = "complete"
    /\ page.state.persona.audioUrl = "data:audio/mpeg;base64,AAAA"
    /\ page.intervals = {}

\* C38: AudioBriefing renders the transcript and its toggle only while
\* isLoading is false and error is null; isLoading is true when the
\* component is mounted and becomes false only in the handler of
\* 'loadedmetadata' or of 'error'; when the audio element fires neither, the
\* component keeps loading and never shows the transcript.
C38_TranscriptNeedsAnAudioEvent ==
    /\ [](player.mounted =>
            ((ControlsRendered \/ TranscriptRendered) =>
                (~player.isLoading /\ player.error = StateNull)))
    /\ [][(player.mounted /\ player'.mounted
             /\ player'.showTranscript # player.showTranscript) =>
            (~player.isLoading /\ player.error = StateNull)]_vars
    /\ [][(~player.mounted /\ player'.mounted) => player'.isLoading]_vars
    /\ [][(player.mounted /\ player'.mounted
             /\ player.isLoading /\ ~player'.isLoading) =>
            player'.handled \in { "loadedmetadata", "error" }]_vars
    /\ []((player.mounted /\ player.fires = {}) =>
            (player.isLoading /\ ~player.showTranscript /\ ~TranscriptRendered))

\* witness of C38: the AudioBriefing of a degraded result, whose audio
\* element fires nothing: it is loading, with a transcript it does not show
C38_Witness ==
    /\ player.mounted
    /\ player.audioUrl = ""
    /\ player.fires = {}
    /\ player.transcript = "Hello there."
    /\ player.isLoading
    /\ page.state.persona.audioUrl = ""

\* witness of C38: the transcript shown after 'loadedmetadata' and a click on
\* the toggle
C38_WitnessShown ==
    /\ TranscriptRendered
    /\ player.handled = "toggle"
    /\ player.fires = { "loadedmetadata" }
====
